---- MODULE Spec2Model ----
(***************************************************************************)
(* The cache-backed fetch-article edge function of medium-unlocked         *)
(* (src/unnamed/part_005, second listing, lines 367-907) and the tables it *)
(* writes (supabase/migrations/20260128100629_...sql).                     *)
(*                                                                         *)
(* Every handler invocation is a process.  A process takes one step per    *)
(* await of the handler: the fetch of extractWithStrategy, each PostgREST  *)
(* statement (one statement is one atomic step of the store) and each      *)
(* backoff sleep.  The synchronous code between two awaits belongs to the  *)
(* step of the earlier await.                                              *)
(*                                                                         *)
(* Abstractions.  Text is kept as text where the code inspects it (the url,*)
(* titles, authors, messages).  Fetched markup is a Page record carrying   *)
(* what extractContent derives from it; the markup rules themselves are    *)
(* not part of this model.  The clock of the store counts days, the clock  *)
(* of a running fetch counts milliseconds.  The columns                    *)
(* response_time_ms, content_length, plain_text and metadata, which no     *)
(* statement of the handler ever reads back, are left out of the rows.     *)
(***************************************************************************)
EXTENDS Integers, Sequences, FiniteSets, Bags, TLC

(***************************************************************************)
(* Bounds of the model                                                     *)
(***************************************************************************)
MaxRequests == 2
MaxTime == 8
MaxLogRows == 6

Procs == {"r1", "r2"}
TickDays == {3, 4}

(***************************************************************************)
(* Text as sequences of characters                                         *)
(***************************************************************************)
LabelChars ==
  {"a","b","c","d","e","f","g","h","i","j","k","l","m","n","o","p","q","r",
   "s","t","u","v","w","x","y","z",
   "A","B","C","D","E","F","G","H","I","J","K","L","M","N","O","P","Q","R",
   "S","T","U","V","W","X","Y","Z",
   "0","1","2","3","4","5","6","7","8","9","-"}

C_HTTP == <<"h","t","t","p",":","/","/">>
C_HTTPS == <<"h","t","t","p","s",":","/","/">>
C_FTP == <<"f","t","p",":","/","/">>
C_WWW == <<"w","w","w",".">>
C_MEDIUM == <<"m","e","d","i","u","m",".","c","o","m">>
C_DOT_MEDIUM == <<".">> \o C_MEDIUM
C_EVIL == <<"e","v","i","l",".","o","r","g">>

\* https://medium.com/@alice/my-post-abc123
UrlAlice ==
  C_HTTPS \o C_MEDIUM \o
  <<"/","@","a","l","i","c","e","/","m","y","-","p","o","s","t","-",
    "a","b","c","1","2","3">>
\* https://medium.com/p/42
UrlP42 == C_HTTPS \o C_MEDIUM \o <<"/","p","/","4","2">>
\* http://www.blog.medium.com/x
UrlBlog == C_HTTP \o C_WWW \o <<"b","l","o","g">> \o C_DOT_MEDIUM \o <<"/","x">>
\* the empty string
UrlEmpty == <<>>
\* ftp://medium.com/x
UrlFtp == C_FTP \o C_MEDIUM \o <<"/","x">>
\* https://evil.org/medium.com
UrlEvil == C_HTTPS \o C_EVIL \o <<"/">> \o C_MEDIUM
\* https://medium.com.evil.org/x
UrlLookalike == C_HTTPS \o C_MEDIUM \o <<".">> \o C_EVIL \o <<"/","x">>

MatchAt(s, i, lit) ==
  /\ i >= 1
  /\ i + Len(lit) - 1 <= Len(s)
  /\ \A k \in 1..Len(lit) : s[i + k - 1] = lit[k]

\* index just after a leading "http://" or "https://", 0 when there is none
AfterScheme(s, i) ==
  IF MatchAt(s, i, C_HTTP) THEN i + Len(C_HTTP)
  ELSE IF MatchAt(s, i, C_HTTPS) THEN i + Len(C_HTTPS)
  ELSE 0

\* (medium\.com|[a-zA-Z0-9-]+\.medium\.com) matched at index i
HostAlternative(s, i) ==
  \/ MatchAt(s, i, C_MEDIUM)
  \/ \E n \in 1..Len(s) :
       /\ i + n - 1 <= Len(s)
       /\ \A k \in i..(i + n - 1) : s[k] \in LabelChars
       /\ MatchAt(s, i + n, C_DOT_MEDIUM)

\* /^https?:\/\/(www\.)?(medium\.com|[a-zA-Z0-9-]+\.medium\.com)/.test(url)
mediumPattern(s) ==
  LET i == AfterScheme(s, 1) IN
    /\ i > 0
    /\ \/ HostAlternative(s, i)
       \/ MatchAt(s, i, C_WWW) /\ HostAlternative(s, i + Len(C_WWW))

\* url.match(/https?:\/\/([^/]+)/): group 1 of the leftmost match, else url
extractUrlPattern(s) ==
  LET starts == {i \in 1..Len(s) :
                   /\ AfterScheme(s, i) > 0
                   /\ AfterScheme(s, i) <= Len(s)
                   /\ s[AfterScheme(s, i)] # "/"}
  IN IF starts = {} THEN s
     ELSE LET i == CHOOSE j \in starts : \A k \in starts : j <= k
              a == AfterScheme(s, i)
              stops == {j \in a..Len(s) : s[j] = "/"}
              b == IF stops = {} THEN Len(s)
                   ELSE (CHOOSE j \in stops : \A k \in stops : j <= k) - 1
          IN SubSeq(s, a, b)

(***************************************************************************)
(* Strategies and thresholds of the handler                                *)
(***************************************************************************)
SuccessScore == 60
PartialScore == 40
MinHtmlLength == 1000
WordsPerMinute == 200
CacheTtlDays == 7
BackoffBaseMs == 1000

\* the strategies array; mirror is the text put in front of the url
strategies ==
  << [method |-> "freedium-primary", mirror |-> "https://freedium-mirror.cfd/",
      timeout |-> 25000],
     [method |-> "freedium-alternative", mirror |-> "https://freedium.cfd/",
      timeout |-> 25000],
     [method |-> "direct-fetch", mirror |-> "", timeout |-> 20000],
     [method |-> "archive-is", mirror |-> "https://archive.is/newest/",
      timeout |-> 30000] >>

\* maxRetries with a budget of three for the first strategy
maxRetriesThree(strategyIndex) == IF strategyIndex = 0 THEN 3 ELSE 1

\* strategyIndex counts from 0 as in the handler
maxRetries(strategyIndex) == IF strategyIndex = 0 THEN 2 ELSE 1

RECURSIVE Pow2(_)
Pow2(n) == IF n <= 0 THEN 1 ELSE 2 * Pow2(n - 1)
\* backoffMs with the exponent attempt in place of attempt - 1
backoffMsLate(attempt) == BackoffBaseMs * Pow2(attempt)

backoffMs(attempt) == BackoffBaseMs * Pow2(attempt - 1)

\* the instants the clock of a fetch is looked at: the timeouts, and one
\* instant after the last of them
MaxElapsedMs == 40000
Instants == {s.timeout : s \in {strategies[i] : i \in 1..Len(strategies)}} \cup {MaxElapsedMs}

(***************************************************************************)
(* Fetched pages.  A Page stands for a response body: its length and what  *)
(* extractContent finds in it.                                             *)
(***************************************************************************)
NoPage ==
  [id |-> "none", htmlLength |-> 0, title |-> "", author |-> "", words |-> 0,
   paragraphs |-> 0, headings |-> 0, images |-> 0, minRead |-> FALSE]
\* an error placeholder page
PageShort ==
  [id |-> "short", htmlLength |-> 512, title |-> "Untitled Article",
   author |-> "", words |-> 20, paragraphs |-> 1, headings |-> 0, images |-> 0,
   minRead |-> FALSE]
\* a page whose article body was not found
PageShell ==
  [id |-> "shell", htmlLength |-> 4000, title |-> "Untitled Article",
   author |-> "", words |-> 150, paragraphs |-> 2, headings |-> 0, images |-> 0,
   minRead |-> FALSE]
\* a teaser: title, author, a few words, one image
PageTeaser ==
  [id |-> "teaser", htmlLength |-> 6000, title |-> "A Tale of Two Mirrors",
   author |-> "Alice", words |-> 150, paragraphs |-> 3, headings |-> 0,
   images |-> 1, minRead |-> FALSE]
\* a truncated article
PageTruncated ==
  [id |-> "truncated", htmlLength |-> 9000, title |-> "A Tale of Two Mirrors",
   author |-> "Alice", words |-> 350, paragraphs |-> 3, headings |-> 0,
   images |-> 0, minRead |-> FALSE]
\* the article of the scenario: a 30-character title, an author, 1200 words,
\* 12 paragraphs, 2 images
PageScenario ==
  [id |-> "scenario", htmlLength |-> 90000,
   title |-> "Thirty Characters Of Headline.", author |-> "Alice",
   words |-> 1200, paragraphs |-> 12, headings |-> 0, images |-> 2,
   minRead |-> FALSE]
\* a full article
PageFull ==
  [id |-> "full", htmlLength |-> 40000, title |-> "A Tale of Two Mirrors",
   author |-> "Alice", words |-> 600, paragraphs |-> 6, headings |-> 0,
   images |-> 1, minRead |-> FALSE]

\* fetch outcomes: the abort timer fires, or a response with a status and a body
FetchAbort == [kind |-> "abort", status |-> 0, statusText |-> "", html |-> NoPage]
FetchBody(page) == [kind |-> "response", status |-> 200, statusText |-> "OK", html |-> page]
FetchUnavailable ==
  [kind |-> "response", status |-> 503, statusText |-> "Service Unavailable",
   html |-> PageShort]

AllOutcomes ==
  {FetchAbort, FetchUnavailable, FetchBody(PageShort), FetchBody(PageShell),
   FetchBody(PageTeaser), FetchBody(PageTruncated), FetchBody(PageFull),
   FetchBody(PageScenario)}

Null == [null |-> TRUE]
NoText == ""

Min(a, b) == IF a < b THEN a ELSE b
Max(a, b) == IF a > b THEN a ELSE b
CeilDiv(a, b) == (a + b - 1) \div b
Points(cond, n) == IF cond THEN n ELSE 0

\* what the handler uses of extractContent's result
extractContent(html) ==
  [content |-> html.id, title |-> html.title, author |-> html.author,
   words |-> html.words, paragraphs |-> html.paragraphs,
   headings |-> html.headings, images |-> html.images]

\* calculateCompletenessScore without the points for more than 1000 words
calculateCompletenessScoreThreeTiers(extracted, html) ==
  LET score ==
        Points(/\ extracted.title # ""
               /\ extracted.title # "Untitled Article"
               /\ Len(extracted.title) > 10, 20)
        + Points(extracted.author # "" /\ Len(extracted.author) > 2, 10)
        + Points(extracted.words > 100, 10)
        + Points(extracted.words > 300, 10)
        + Points(extracted.words > 500, 10)
        + Points(extracted.paragraphs > 3, 10)
        + Points(extracted.paragraphs > 8, 5)
        + Points(extracted.headings > 0, 5)
        + Points(extracted.images > 0, 5)
        + Points(html.minRead, 5)
  IN Min(100, score)

calculateCompletenessScore(extracted, html) ==
  LET score ==
        Points(/\ extracted.title # ""
               /\ extracted.title # "Untitled Article"
               /\ Len(extracted.title) > 10, 20)
        + Points(extracted.author # "" /\ Len(extracted.author) > 2, 10)
        + Points(extracted.words > 100, 10)
        + Points(extracted.words > 300, 10)
        + Points(extracted.words > 500, 10)
        + Points(extracted.words > 1000, 10)
        + Points(extracted.paragraphs > 3, 10)
        + Points(extracted.paragraphs > 8, 5)
        + Points(extracted.headings > 0, 5)
        + Points(extracted.images > 0, 5)
        + Points(html.minRead, 5)
  IN Min(100, score)

\* ArticleFetcher.calculateCompletenessScore without Math.min(100, score)
ArticleFetcher_calculateCompletenessScore_unclamped(extracted, html) ==
  Points(extracted.title # "" /\ extracted.title # "Untitled Article",
         IF Len(extracted.title) > 20 THEN 25
         ELSE IF Len(extracted.title) > 10 THEN 20
         ELSE IF Len(extracted.title) > 5 THEN 15 ELSE 0)
  + Points(extracted.author # "" /\ Len(extracted.author) > 2,
           IF Len(extracted.author) > 5 /\ Len(extracted.author) < 50
           THEN 15 ELSE 10)
  + (IF extracted.words > 2000 THEN 30
     ELSE IF extracted.words > 1000 THEN 25
     ELSE IF extracted.words > 500 THEN 20
     ELSE IF extracted.words > 300 THEN 15
     ELSE IF extracted.words > 100 THEN 10
     ELSE IF extracted.words > 50 THEN 5 ELSE 0)
  + (IF extracted.paragraphs > 10 THEN 15
     ELSE IF extracted.paragraphs > 5 THEN 12
     ELSE IF extracted.paragraphs > 3 THEN 8
     ELSE IF extracted.paragraphs > 1 THEN 5 ELSE 0)
  + Points(extracted.headings > 0, 5)
  + (IF extracted.images > 3 THEN 10
     ELSE IF extracted.images > 1 THEN 7
     ELSE IF extracted.images > 0 THEN 5 ELSE 0)
  + Points(html.minRead \/ html.readingTime, 3)
  + Points(extracted.quotes > 0, 3)
  + Points(extracted.lists > 0, 2)
  + Points(extracted.links > 5, 2)

\* ArticleFetcher.calculateCompletenessScore, the rubric of the client
ArticleFetcher_calculateCompletenessScore(extracted, html) ==
  LET score ==
        Points(extracted.title # "" /\ extracted.title # "Untitled Article",
               IF Len(extracted.title) > 20 THEN 25
               ELSE IF Len(extracted.title) > 10 THEN 20
               ELSE IF Len(extracted.title) > 5 THEN 15 ELSE 0)
        + Points(extracted.author # "" /\ Len(extracted.author) > 2,
                 IF Len(extracted.author) > 5 /\ Len(extracted.author) < 50
                 THEN 15 ELSE 10)
        + (IF extracted.words > 2000 THEN 30
           ELSE IF extracted.words > 1000 THEN 25
           ELSE IF extracted.words > 500 THEN 20
           ELSE IF extracted.words > 300 THEN 15
           ELSE IF extracted.words > 100 THEN 10
           ELSE IF extracted.words > 50 THEN 5 ELSE 0)
        + (IF extracted.paragraphs > 10 THEN 15
           ELSE IF extracted.paragraphs > 5 THEN 12
           ELSE IF extracted.paragraphs > 3 THEN 8
           ELSE IF extracted.paragraphs > 1 THEN 5 ELSE 0)
        + Points(extracted.headings > 0, 5)
        + (IF extracted.images > 3 THEN 10
           ELSE IF extracted.images > 1 THEN 7
           ELSE IF extracted.images > 0 THEN 5 ELSE 0)
        + Points(html.minRead \/ html.readingTime, 3)
        + Points(extracted.quotes > 0, 3)
        + Points(extracted.lists > 0, 2)
        + Points(extracted.links > 5, 2)
  IN Min(100, score)

Thrown(name, message) == [ok |-> FALSE, error |-> [name |-> name, message |-> message], value |-> Null]
Returned(value) == [ok |-> TRUE, error |-> Null, value |-> value]

\* "HTTP ${response.status}: ${response.statusText}"
HttpMessage(fetched) ==
  IF fetched.status = 503 THEN "HTTP 503: Service Unavailable"
  ELSE "HTTP " \o fetched.statusText

\* response.ok
ResponseOk(fetched) == fetched.status >= 200 /\ fetched.status <= 299

\* extractWithStrategy, given what the fetch of strategy.url came to
extractWithStrategy(strategy, originalUrl, fetched) ==
  IF fetched.kind = "abort"
  THEN Thrown("AbortError", "The signal has been aborted")
  ELSE IF ~ResponseOk(fetched)
  THEN Thrown("Error", HttpMessage(fetched))
  ELSE IF fetched.html.htmlLength < MinHtmlLength
  THEN Thrown("Error", "Response too short, likely empty or error page")
  ELSE LET extracted == extractContent(fetched.html)
           wordCount == extracted.words
       IN Returned([content |-> extracted.content,
                    title |-> extracted.title,
                    author |-> extracted.author,
                    wordCount |-> wordCount,
                    readingTime |-> Max(1, CeilDiv(wordCount, WordsPerMinute)),
                    completenessScore |-> calculateCompletenessScore(extracted, fetched.html),
                    method |-> strategy.method])

(***************************************************************************)
(* State                                                                   *)
(***************************************************************************)
VARIABLES
  now,              \* the clock, in days
  requests,         \* invocations received so far
  article_cache,    \* table article_cache: a set of rows, url unique
  extraction_logs,  \* table extraction_logs: a bag of rows
  url_reliability,  \* table url_reliability: a set of rows, url_pattern unique
  pc,               \* per invocation: the await it is at
  req,              \* per invocation: its number
  url,              \* per invocation: the url of the request body
  cached,           \* per invocation: what checkCache returned
  strategyIndex,    \* per invocation: loop variable
  attempt,          \* per invocation: loop variable
  result,           \* per invocation: let result
  lastError,        \* per invocation: let lastError
  success,          \* per invocation: argument success of updateReliability
  existing,         \* per invocation: the row updateReliability selected
  response,         \* per invocation: the Response returned
  seen,             \* per invocation: what has happened in it (history)
  storeUp,          \* whether the store answers the statements sent to it
  elapsed,          \* per invocation: ms since its running fetch began
  timer,            \* per invocation: whether the abort timer is armed
  pending,          \* per invocation: the response whose body is being read
  cancelled,        \* per invocation: whether its caller has disconnected
  probe,            \* a call of a pure function: its arguments and its value
  history,          \* useArticleHistory: the state of the hook
  localStorage,     \* the value stored under STORAGE_KEY, Null when absent
  dateNow,          \* Date.now() of the browser, in ms
  isInitialized,    \* AdsterraPopunderService: the script has loaded
  lastTriggerTime,  \* AdsterraPopunderService: field lastTriggerTime
  popunders,        \* the calls of triggerPopunder so far (history)
  fetcher           \* ArticleFetcher.fetchArticle: the locals of a call

vars ==
  <<now, requests, article_cache, extraction_logs, url_reliability, pc, req,
    url, cached, strategyIndex, attempt, result, lastError, success, existing,
    response, seen, storeUp, elapsed, timer, pending, cancelled, probe,
    history, localStorage, dateNow, isInitialized, lastTriggerTime, popunders,
    fetcher>>

tables == <<article_cache, extraction_logs, url_reliability>>
locals == <<cached, strategyIndex, attempt, result, lastError, success, existing>>
wire == <<elapsed, timer, pending>>
browser ==
  <<history, localStorage, dateNow, isInitialized, lastTriggerTime, popunders,
    fetcher>>
aside == <<storeUp, wire, cancelled, probe, browser>>

NoResponse == [kind |-> "none"]
NoTime == 0 - 1
NoProbe == [fn |-> "none"]

NoHistory ==
  [fetches |-> 0,        \* calls of extractWithStrategy
   returned |-> 0,       \* calls that returned a result
   reached |-> Null,     \* the first result scoring >= 60
   beyond |-> 0,         \* calls made after such a call
   best |-> Null,        \* the first highest result scoring in [40, 60)
   reliability |-> 0,    \* calls of updateReliability
   reliabilityOk |-> 0,  \* of these, with success = true
   cacheReads |-> 0,     \* calls of checkCache
   unexpired |-> {},     \* the unexpired rows of the url at that call
   cacheWrites |-> 0,    \* calls of cacheArticle
   sleeps |-> <<>>,      \* the backoff sleeps, in ms
   started |-> 0,        \* calls of extractWithStrategy that have begun
   order |-> <<>>,       \* their methods, in the order they began
   last |-> Null,        \* the last result returned
   thrown |-> NoText,    \* the message of the last throw
   cachedAt |-> NoTime]  \* the time of the call of cacheArticle

\* the page has just been loaded: nothing stored, no ad script, no fetch
NoFetch == [pc |-> "idle"]
InitBrowser ==
  /\ history = <<>>
  /\ localStorage = {}
  /\ dateNow = 100000
  /\ isInitialized = FALSE
  /\ lastTriggerTime = 0
  /\ popunders = <<>>
  /\ fetcher = NoFetch

\* no invocation has been received
InitInvocations ==
  /\ requests = 0
  /\ pc = [p \in Procs |-> "idle"]
  /\ req = [p \in Procs |-> 0]
  /\ url = [p \in Procs |-> <<>>]
  /\ cached = [p \in Procs |-> Null]
  /\ strategyIndex = [p \in Procs |-> 0]
  /\ attempt = [p \in Procs |-> 1]
  /\ result = [p \in Procs |-> Null]
  /\ lastError = [p \in Procs |-> Null]
  /\ success = [p \in Procs |-> FALSE]
  /\ existing = [p \in Procs |-> Null]
  /\ response = [p \in Procs |-> NoResponse]
  /\ seen = [p \in Procs |-> NoHistory]
  /\ elapsed = [p \in Procs |-> 0]
  /\ timer = [p \in Procs |-> FALSE]
  /\ pending = [p \in Procs |-> Null]
  /\ cancelled = [p \in Procs |-> FALSE]

Init ==
  /\ now = 0
  /\ article_cache = {}
  /\ extraction_logs = EmptyBag
  /\ url_reliability = {}
  /\ storeUp = TRUE
  /\ probe = NoProbe
  /\ InitBrowser
  /\ InitInvocations

(***************************************************************************)
(* Responses                                                               *)
(***************************************************************************)
ErrorResponse(status, message) ==
  [kind |-> "error", status |-> status, error |-> message]

\* warning = NoText stands for a body without the key warning
ArticleResponse(a, isCached, warning) ==
  [kind |-> "article", status |-> 200, content |-> a.content, title |-> a.title,
   author |-> a.author, wordCount |-> a.wordCount,
   readingTime |-> a.readingTime, cached |-> isCached, warning |-> warning]

PartialWarning ==
  "Article may be incomplete. Content extraction was partially successful."

\* ValidateRequest with a pattern that tests the scheme alone
ValidateRequestSchemeOnly(u) ==
  IF u = <<>> THEN ErrorResponse(400, "URL is required")
  ELSE IF AfterScheme(u, 1) = 0
  THEN ErrorResponse(400, "Please provide a valid Medium article URL")
  ELSE Null

\* the checks before the first await; Null when the url passes
ValidateRequest(u) ==
  IF u = <<>> THEN ErrorResponse(400, "URL is required")
  ELSE IF ~mediumPattern(u)
  THEN ErrorResponse(400, "Please provide a valid Medium article URL")
  ELSE Null

\* a row of article_cache as the handler reads it back
CachedResponse(row) ==
  ArticleResponse([content |-> row.content, title |-> row.title,
                   author |-> row.author, wordCount |-> row.word_count,
                   readingTime |-> row.reading_time], TRUE, NoText)

SuccessResponse(res) == ArticleResponse(res, FALSE, NoText)

\* ExhaustedResponse with the success threshold in the partial return
ExhaustedResponseSuccessOnly(res, err) ==
  IF res # Null /\ res.completenessScore >= SuccessScore
  THEN ArticleResponse(res, FALSE, PartialWarning)
  ELSE ErrorResponse(500, IF err # Null THEN err.message
                          ELSE "All extraction methods failed")

\* ExhaustedResponse that throws the fixed error whatever lastError is
ExhaustedResponseFixedError(res, err) ==
  IF res # Null /\ res.completenessScore >= PartialScore
  THEN ArticleResponse(res, FALSE, PartialWarning)
  ELSE ErrorResponse(500, "All extraction methods failed")

\* after the loops: the partial return, or the throw caught by the outer catch
ExhaustedResponse(res, err) ==
  IF res # Null /\ res.completenessScore >= PartialScore
  THEN ArticleResponse(res, FALSE, PartialWarning)
  ELSE ErrorResponse(500, IF err # Null THEN err.message
                          ELSE "All extraction methods failed")

(***************************************************************************)
(* Store statements                                                        *)
(***************************************************************************)
\* SelectCache with .lt('expires_at', now) in place of .gt
SelectCacheExpired(table, u, t) ==
  LET rows == {r \in table : r.url = u /\ r.expires_at < t}
  IN IF rows = {} THEN Null ELSE CHOOSE r \in rows : TRUE

\* SelectCache with .gte('expires_at', now) in place of .gt
SelectCacheAtExpiry(table, u, t) ==
  LET rows == {r \in table : r.url = u /\ r.expires_at >= t}
  IN IF rows = {} THEN Null ELSE CHOOSE r \in rows : TRUE

\* .from('article_cache').select('*').eq('url', url).gt('expires_at', now)
\* .maybeSingle()
SelectCache(table, u, t) ==
  LET rows == {r \in table : r.url = u /\ r.expires_at > t}
  IN IF rows = {} THEN Null ELSE CHOOSE r \in rows : TRUE

CacheRow(u, res, t) ==
  [url |-> u, title |-> res.title, author |-> res.author,
   content |-> res.content, word_count |-> res.wordCount,
   reading_time |-> res.readingTime, extraction_method |-> res.method,
   completeness_score |-> res.completenessScore,
   expires_at |-> t + CacheTtlDays]

\* .from('article_cache').upsert(row) names no onConflict column, so the
\* statement is INSERT .. ON CONFLICT (id) DO UPDATE with a fresh id: a row
\* that already holds the url violates UNIQUE(url), the statement fails and
\* cacheArticle drops the error.
UpsertCache(table, row) ==
  IF \E r \in table : r.url = row.url THEN table ELSE table \cup {row}

LogRow(p, method, status) ==
  [req |-> req[p], url |-> url[p], attempt_number |-> attempt[p],
   method |-> method, status |-> status]

\* InsertLog as an upsert keyed by url: the rows of the url are replaced
InsertLogByUrl(table, row) ==
  LET kept == {r \in BagToSet(table) : r.url # row.url}
  IN [r \in kept |-> table[r]] (+) SetToBag({row})

\* .from('extraction_logs').insert(row)
InsertLog(table, row) == table (+) SetToBag({row})

\* clean_expired_cache with expires_at <= now()
clean_expired_cache_at_expiry(table, t) == {r \in table : ~(r.expires_at <= t)}

\* DELETE FROM article_cache WHERE expires_at < now()
clean_expired_cache(table, t) == {r \in table : ~(r.expires_at < t)}

\* .from('url_reliability').select('*').eq('url_pattern', pattern).maybeSingle()
SelectReliabilityRow(table, pattern) ==
  LET rows == {r \in table : r.url_pattern = pattern}
  IN IF rows = {} THEN Null ELSE CHOOSE r \in rows : TRUE

\* UpdatedReliability that leaves total_attempts as it was
UpdatedReliabilityTotalKept(old, method, ok, t) ==
  [url_pattern |-> old.url_pattern,
   total_attempts |-> old.total_attempts,
   successful_attempts |-> old.successful_attempts + (IF ok THEN 1 ELSE 0),
   best_method |-> IF ok THEN method ELSE old.best_method,
   last_success_at |-> IF ok THEN t ELSE old.last_success_at]

\* the values updateReliability computes from the row it selected
UpdatedReliability(old, method, ok, t) ==
  [url_pattern |-> old.url_pattern,
   total_attempts |-> old.total_attempts + 1,
   successful_attempts |-> old.successful_attempts + (IF ok THEN 1 ELSE 0),
   best_method |-> IF ok THEN method ELSE old.best_method,
   last_success_at |-> IF ok THEN t ELSE old.last_success_at]

NewReliability(pattern, method, ok, t) ==
  [url_pattern |-> pattern,
   total_attempts |-> 1,
   successful_attempts |-> IF ok THEN 1 ELSE 0,
   best_method |-> IF ok THEN method ELSE NoText,
   last_success_at |-> IF ok THEN t ELSE NoTime]

\* .update(values).eq('url_pattern', pattern), or .insert(values), which
\* fails on UNIQUE(url_pattern) when a row was created in between
WriteReliabilityRow(table, old, pattern, method, ok, t) ==
  IF old # Null
  THEN {r \in table : r.url_pattern # pattern}
       \cup {UpdatedReliability(old, method, ok, t) :
               r \in {x \in table : x.url_pattern = pattern}}
  ELSE IF \E r \in table : r.url_pattern = pattern THEN table
       ELSE table \cup {NewReliability(pattern, method, ok, t)}

(***************************************************************************)
(* The handler                                                             *)
(***************************************************************************)
InFlight == {p \in Procs : pc[p] \notin {"idle", "done"}}

\* what a statement leaves behind: its effect, or nothing when the store is
\* down (the error is returned or thrown and the caller drops it)
Answered(effect, untouched) == IF storeUp THEN effect ELSE untouched

\* AtLeastSuccess with a threshold of 80, and with the partial threshold
AtLeastSuccess80(res) == res # Null /\ res.completenessScore >= 80
AtLeastSuccessPartial(res) == res # Null /\ res.completenessScore >= PartialScore

AtLeastSuccess(res) == res # Null /\ res.completenessScore >= SuccessScore

\* the history after a call of extractWithStrategy has begun
Begin(h, method) ==
  [h EXCEPT !.started = @ + 1, !.order = Append(@, method)]

\* the history after a call of extractWithStrategy that came to r
Observe(h, r) ==
  LET score == IF r.ok THEN r.value.completenessScore ELSE 0
      partial == r.ok /\ score >= PartialScore /\ score < SuccessScore
  IN [h EXCEPT
        !.fetches = @ + 1,
        !.returned = @ + (IF r.ok THEN 1 ELSE 0),
        !.reached = IF @ = Null /\ r.ok /\ score >= SuccessScore
                    THEN r.value ELSE @,
        !.beyond = @ + (IF h.reached # Null THEN 1 ELSE 0),
        !.best = IF partial /\ (h.best = Null \/ score > h.best.completenessScore)
                 THEN r.value ELSE @,
        !.last = IF r.ok THEN r.value ELSE @,
        !.thrown = IF r.ok THEN @ ELSE r.error.message]

\* ContinueSkipping: Continue that passes over the strategy after the next
ContinueSkipping(p, res, err) ==
  IF attempt[p] < maxRetries(strategyIndex[p])
  THEN /\ pc' = [pc EXCEPT ![p] = "backoff"]
       /\ UNCHANGED <<strategyIndex, attempt, response>>
  ELSE IF strategyIndex[p] + 2 < Len(strategies)
  THEN /\ pc' = [pc EXCEPT ![p] = "extract"]
       /\ strategyIndex' = [strategyIndex EXCEPT ![p] = @ + 2]
       /\ attempt' = [attempt EXCEPT ![p] = 1]
       /\ UNCHANGED response
  ELSE /\ pc' = [pc EXCEPT ![p] = "done"]
       /\ response' = [response EXCEPT ![p] = ExhaustedResponse(res, err)]
       /\ UNCHANGED <<strategyIndex, attempt>>

\* the end of one pass of the inner loop that did not return: the backoff
\* sleep, the next attempt, the next strategy, or the code after the loops
Continue(p, res, err) ==
  IF attempt[p] < maxRetries(strategyIndex[p])
  THEN /\ pc' = [pc EXCEPT ![p] = "backoff"]
       /\ UNCHANGED <<strategyIndex, attempt, response>>
  ELSE IF strategyIndex[p] + 1 < Len(strategies)
  THEN /\ pc' = [pc EXCEPT ![p] = "extract"]
       /\ strategyIndex' = [strategyIndex EXCEPT ![p] = @ + 1]
       /\ attempt' = [attempt EXCEPT ![p] = 1]
       /\ UNCHANGED response
  ELSE /\ pc' = [pc EXCEPT ![p] = "done"]
       /\ response' = [response EXCEPT ![p] = ExhaustedResponse(res, err)]
       /\ UNCHANGED <<strategyIndex, attempt>>

\* serve: req.json(), the two url checks, createClient
Receive(p, u) ==
  /\ pc[p] \in {"idle", "done"}
  /\ requests < MaxRequests
  /\ requests' = requests + 1
  /\ req' = [req EXCEPT ![p] = requests + 1]
  /\ url' = [url EXCEPT ![p] = u]
  /\ cached' = [cached EXCEPT ![p] = Null]
  /\ strategyIndex' = [strategyIndex EXCEPT ![p] = 0]
  /\ attempt' = [attempt EXCEPT ![p] = 1]
  /\ result' = [result EXCEPT ![p] = Null]
  /\ lastError' = [lastError EXCEPT ![p] = Null]
  /\ success' = [success EXCEPT ![p] = FALSE]
  /\ existing' = [existing EXCEPT ![p] = Null]
  /\ seen' = [seen EXCEPT ![p] = NoHistory]
  /\ elapsed' = [elapsed EXCEPT ![p] = 0]
  /\ cancelled' = [cancelled EXCEPT ![p] = FALSE]
  /\ IF ValidateRequest(u) # Null
     THEN /\ response' = [response EXCEPT ![p] = ValidateRequest(u)]
          /\ pc' = [pc EXCEPT ![p] = "done"]
     ELSE /\ response' = [response EXCEPT ![p] = NoResponse]
          /\ pc' = [pc EXCEPT ![p] = "checkCache"]
  /\ UNCHANGED <<now, tables, storeUp, timer, pending, probe, browser>>

\* const cached = await checkCache(supabase, url); an error reads as no row
CheckCache(p) ==
  /\ pc[p] = "checkCache"
  /\ cached' = [cached EXCEPT ![p] =
                  Answered(SelectCache(article_cache, url[p], now), Null)]
  /\ pc' = [pc EXCEPT ![p] = IF cached'[p] # Null THEN "logCacheHit" ELSE "extract"]
  /\ seen' = [seen EXCEPT
                ![p].cacheReads = @ + 1,
                ![p].unexpired = {r \in article_cache :
                                    r.url = url[p] /\ r.expires_at > now}]
  /\ UNCHANGED <<now, requests, tables, req, url, strategyIndex, attempt,
                 result, lastError, success, existing, response, aside>>

\* await logExtraction(.., 1, 'cache', 'success', ..); return the cached row
LogCacheHit(p) ==
  /\ pc[p] = "logCacheHit"
  /\ extraction_logs' =
       Answered(InsertLog(extraction_logs, LogRow(p, "cache", "success")),
                extraction_logs)
  /\ response' = [response EXCEPT ![p] = CachedResponse(cached[p])]
  /\ pc' = [pc EXCEPT ![p] = "done"]
  /\ UNCHANGED <<now, requests, article_cache, url_reliability, req, url,
                 locals, seen, aside>>

\* what follows a fetch that came to fetched: result = .. and the branch on
\* its score, or the throw that enters the catch block
Settle(p, h, fetched) ==
  LET r == extractWithStrategy(strategies[strategyIndex[p] + 1], url[p], fetched)
  IN /\ seen' = [seen EXCEPT ![p] = Observe(h, r)]
     /\ IF r.ok
        THEN /\ result' = [result EXCEPT ![p] = r.value]
             /\ pc' = [pc EXCEPT ![p] = IF AtLeastSuccess(r.value)
                                        THEN "logSuccess" ELSE "logPartial"]
             /\ UNCHANGED lastError
        ELSE /\ lastError' = [lastError EXCEPT ![p] = r.error]
             /\ pc' = [pc EXCEPT ![p] = "logFailed"]
             /\ UNCHANGED result

\* result = await extractWithStrategy(strategy, url) as one step, the fetch
\* drawn from outcomes; no attempt starts once extraction_logs holds
\* MaxLogRows rows
Extract(p, outcomes) ==
  /\ pc[p] = "extract"
  /\ BagCardinality(extraction_logs) < MaxLogRows
  /\ \E fetched \in outcomes :
       Settle(p, Begin(seen[p], strategies[strategyIndex[p] + 1].method), fetched)
  /\ UNCHANGED <<now, requests, tables, req, url, cached, strategyIndex,
                 attempt, success, existing, response, aside>>

\* extractWithStrategy up to the await of fetch: the abort timer is armed
StartFetch(p) ==
  /\ pc[p] = "extract"
  /\ BagCardinality(extraction_logs) < MaxLogRows
  /\ pc' = [pc EXCEPT ![p] = "fetch"]
  /\ timer' = [timer EXCEPT ![p] = TRUE]
  /\ elapsed' = [elapsed EXCEPT ![p] = 0]
  /\ seen' = [seen EXCEPT ![p] = Begin(@, strategies[strategyIndex[p] + 1].method)]
  /\ UNCHANGED <<now, requests, tables, req, url, locals, response, storeUp,
                 pending, cancelled, probe, browser>>

\* time passes while the fetch or the reading of the body is awaited; an
\* armed timer does not let its deadline pass
Elapse(p) ==
  /\ pc[p] \in {"fetch", "body"}
  /\ \E t \in Instants :
       /\ t > elapsed[p]
       /\ timer[p] => t <= strategies[strategyIndex[p] + 1].timeout
       /\ elapsed' = [elapsed EXCEPT ![p] = t]
  /\ UNCHANGED <<now, requests, tables, pc, req, url, locals, response, seen,
                 storeUp, timer, pending, cancelled, probe, browser>>

\* setTimeout(() => controller.abort(), strategy.timeout) fires: fetch
\* rejects, finally clears the timer
TimerFires(p) ==
  /\ pc[p] = "fetch"
  /\ timer[p]
  /\ elapsed[p] = strategies[strategyIndex[p] + 1].timeout
  /\ timer' = [timer EXCEPT ![p] = FALSE]
  /\ Settle(p, seen[p], FetchAbort)
  /\ UNCHANGED <<now, requests, tables, req, url, cached, strategyIndex,
                 attempt, success, existing, response, storeUp, elapsed,
                 pending, cancelled, probe, browser>>

\* await fetch(..) resolves with the headers of a response: clearTimeout,
\* then the throw on !response.ok or the await of response.text()
Headers(p, outcomes) ==
  /\ pc[p] = "fetch"
  /\ \E fetched \in {f \in outcomes : f.kind = "response"} :
       /\ timer' = [timer EXCEPT ![p] = FALSE]
       /\ IF ~ResponseOk(fetched)
          THEN /\ Settle(p, seen[p], fetched)
               /\ UNCHANGED pending
          ELSE /\ pending' = [pending EXCEPT ![p] = fetched]
               /\ pc' = [pc EXCEPT ![p] = "body"]
               /\ UNCHANGED <<result, lastError, seen>>
  /\ UNCHANGED <<now, requests, tables, req, url, cached, strategyIndex,
                 attempt, success, existing, response, storeUp, elapsed,
                 cancelled, probe, browser>>

\* await response.text() resolves: the rest of extractWithStrategy
Body(p) ==
  /\ pc[p] = "body"
  /\ Settle(p, seen[p], pending[p])
  /\ pending' = [pending EXCEPT ![p] = Null]
  /\ UNCHANGED <<now, requests, tables, req, url, cached, strategyIndex,
                 attempt, success, existing, response, storeUp, elapsed, timer,
                 cancelled, probe, browser>>

\* the caller goes away; the handler reads neither req.signal nor any other
\* sign of it
Disconnect(p) ==
  /\ pc[p] \notin {"idle", "done"}
  /\ ~cancelled[p]
  /\ cancelled' = [cancelled EXCEPT ![p] = TRUE]
  /\ UNCHANGED <<now, requests, tables, pc, req, url, locals, response, seen,
                 storeUp, wire, probe, browser>>

\* await logExtraction(.., 'success', ..) of the branch score >= 60
LogSuccess(p) ==
  /\ pc[p] = "logSuccess"
  /\ extraction_logs' =
       Answered(InsertLog(extraction_logs,
                          LogRow(p, strategies[strategyIndex[p] + 1].method, "success")),
                extraction_logs)
  /\ pc' = [pc EXCEPT ![p] = "cacheArticle"]
  /\ UNCHANGED <<now, requests, article_cache, url_reliability, req, url,
                 locals, response, seen, aside>>

\* CacheArticle without the try/catch of cacheArticle: a failed upsert
\* throws into the catch block of the loop
CacheArticleThrowing(p) ==
  /\ pc[p] = "cacheArticle"
  /\ article_cache' =
       Answered(UpsertCache(article_cache, CacheRow(url[p], result[p], now)),
                article_cache)
  /\ success' = [success EXCEPT ![p] = storeUp]
  /\ lastError' = [lastError EXCEPT ![p] =
                     IF storeUp THEN @
                     ELSE [name |-> "Error", message |-> "Failed to cache article"]]
  /\ pc' = [pc EXCEPT ![p] = IF storeUp THEN "selectReliability" ELSE "logFailed"]
  /\ seen' = [seen EXCEPT ![p].cacheWrites = @ + 1, ![p].cachedAt = now]
  /\ UNCHANGED <<now, requests, extraction_logs, url_reliability, req, url,
                 cached, strategyIndex, attempt, result, existing,
                 response, aside>>

\* await cacheArticle(supabase, url, result)
CacheArticle(p) ==
  /\ pc[p] = "cacheArticle"
  /\ article_cache' =
       Answered(UpsertCache(article_cache, CacheRow(url[p], result[p], now)),
                article_cache)
  /\ success' = [success EXCEPT ![p] = TRUE]
  /\ pc' = [pc EXCEPT ![p] = "selectReliability"]
  /\ seen' = [seen EXCEPT ![p].cacheWrites = @ + 1, ![p].cachedAt = now]
  /\ UNCHANGED lastError
  /\ UNCHANGED <<now, requests, extraction_logs, url_reliability, req, url,
                 cached, strategyIndex, attempt, result, existing,
                 response, aside>>

\* await logExtraction(.., 'partial', 'Low completeness score', ..), then the
\* end of the pass
LogPartial(p) ==
  /\ pc[p] = "logPartial"
  /\ extraction_logs' =
       Answered(InsertLog(extraction_logs,
                          LogRow(p, strategies[strategyIndex[p] + 1].method, "partial")),
                extraction_logs)
  /\ Continue(p, result[p], lastError[p])
  /\ UNCHANGED <<now, requests, article_cache, url_reliability, req, url,
                 cached, result, lastError, success, existing, seen, aside>>

\* catch: await logExtraction(.., 'failed', error.message, ..)
LogFailed(p) ==
  /\ pc[p] = "logFailed"
  /\ extraction_logs' =
       Answered(InsertLog(extraction_logs,
                          LogRow(p, strategies[strategyIndex[p] + 1].method, "failed")),
                extraction_logs)
  /\ success' = [success EXCEPT ![p] = FALSE]
  /\ pc' = [pc EXCEPT ![p] = "selectReliability"]
  /\ UNCHANGED <<now, requests, article_cache, url_reliability, req, url,
                 cached, strategyIndex, attempt, result, lastError, existing,
                 response, seen, aside>>

\* updateReliability: const { data: existing } = await .. .maybeSingle()
SelectReliability(p) ==
  /\ pc[p] = "selectReliability"
  /\ existing' = [existing EXCEPT ![p] =
                    Answered(SelectReliabilityRow(url_reliability,
                                                  extractUrlPattern(url[p])), Null)]
  /\ pc' = [pc EXCEPT ![p] = "writeReliability"]
  /\ seen' = [seen EXCEPT ![p].reliability = @ + 1,
                          ![p].reliabilityOk = @ + (IF success[p] THEN 1 ELSE 0)]
  /\ UNCHANGED <<now, requests, tables, req, url, cached, strategyIndex,
                 attempt, result, lastError, success, response, aside>>

\* updateReliability: await .. .update(..) or await .. .insert(..); then the
\* success return, or the end of the pass in the catch block
WriteReliability(p) ==
  /\ pc[p] = "writeReliability"
  /\ url_reliability' =
       Answered(WriteReliabilityRow(url_reliability, existing[p],
                                    extractUrlPattern(url[p]),
                                    strategies[strategyIndex[p] + 1].method,
                                    success[p], now),
                url_reliability)
  /\ existing' = [existing EXCEPT ![p] = Null]
  /\ IF success[p]
     THEN /\ response' = [response EXCEPT ![p] = SuccessResponse(result[p])]
          /\ pc' = [pc EXCEPT ![p] = "done"]
          /\ UNCHANGED <<strategyIndex, attempt>>
     ELSE Continue(p, result[p], lastError[p])
  /\ UNCHANGED <<now, requests, article_cache, extraction_logs, req, url,
                 cached, result, lastError, success, seen, aside>>

\* await new Promise(resolve => setTimeout(resolve, backoffMs)); attempt++
Backoff(p) ==
  /\ pc[p] = "backoff"
  /\ seen' = [seen EXCEPT ![p].sleeps = Append(@, backoffMs(attempt[p]))]
  /\ attempt' = [attempt EXCEPT ![p] = @ + 1]
  /\ pc' = [pc EXCEPT ![p] = "extract"]
  /\ UNCHANGED <<now, requests, tables, req, url, cached, strategyIndex,
                 result, lastError, success, existing, response, aside>>

\* time passes
Tick ==
  /\ \E d \in TickDays :
       /\ now + d <= MaxTime
       /\ now' = now + d
  /\ UNCHANGED <<requests, tables, pc, req, url, locals, response, seen, aside>>

\* SELECT clean_expired_cache(): DELETE FROM article_cache WHERE expires_at < now()
Sweep ==
  /\ article_cache' = clean_expired_cache(article_cache, now)
  /\ UNCHANGED <<now, requests, extraction_logs, url_reliability, pc, req, url,
                 locals, response, seen, aside>>

\* the store stops or resumes answering
StoreFlips ==
  /\ storeUp' = ~storeUp
  /\ UNCHANGED <<now, requests, tables, pc, req, url, locals, response, seen,
                 wire, cancelled, probe, browser>>

\* calculateCompletenessScore(extracted, html) of the handler, on the probe
ScoreHandler ==
  /\ probe.fn = "input"
  /\ probe' = [probe EXCEPT
                 !.fn = "handler",
                 !.score = calculateCompletenessScore(probe.extracted, probe.html)]
  /\ UNCHANGED <<now, requests, tables, pc, req, url, locals, response, seen,
                 storeUp, wire, cancelled, browser>>

\* ArticleFetcher.calculateCompletenessScore(extracted, html), on the probe
ScoreClient ==
  /\ probe.fn = "input"
  /\ probe' = [probe EXCEPT
                 !.fn = "client",
                 !.score = ArticleFetcher_calculateCompletenessScore(probe.extracted,
                                                                     probe.html)]
  /\ UNCHANGED <<now, requests, tables, pc, req, url, locals, response, seen,
                 storeUp, wire, cancelled, browser>>

\* the same call once more, with the same arguments
ScoreAgain ==
  /\ probe.fn \in {"handler", "client"}
  /\ probe.calls = 1
  /\ probe' = [probe EXCEPT
                 !.calls = 2,
                 !.again = IF probe.fn = "handler"
                           THEN calculateCompletenessScore(probe.extracted, probe.html)
                           ELSE ArticleFetcher_calculateCompletenessScore(
                                  probe.extracted, probe.html)]
  /\ UNCHANGED <<now, requests, tables, pc, req, url, locals, response, seen,
                 storeUp, wire, cancelled, browser>>

\* the steps of invocation p after Receive
Handle(p, outcomes) ==
  \/ CheckCache(p)
  \/ LogCacheHit(p)
  \/ Extract(p, outcomes)
  \/ LogSuccess(p)
  \/ CacheArticle(p)
  \/ LogPartial(p)
  \/ LogFailed(p)
  \/ SelectReliability(p)
  \/ WriteReliability(p)
  \/ Backoff(p)

Urls == {UrlAlice, UrlP42, UrlBlog, UrlEmpty, UrlFtp, UrlEvil, UrlLookalike}

(***************************************************************************)
(* Spec: one worker takes invocations one after the other.  An invocation  *)
(* lasts minutes and the clock counts days, so the clock moves between     *)
(* invocations.  The expiry sweep runs at any moment.                      *)
(***************************************************************************)
SerialUrls == {UrlAlice, UrlP42, UrlEmpty, UrlFtp, UrlEvil}
SerialOutcomes == {FetchAbort, FetchBody(PageTeaser), FetchBody(PageScenario)}

Next ==
  \/ \E u \in SerialUrls : Receive("r1", u)
  \/ Handle("r1", SerialOutcomes)
  \/ InFlight = {} /\ Tick
  \/ Sweep

Spec == Init /\ [][Next]_vars

(***************************************************************************)
(* SpecOne: a single invocation, under every fetch outcome                 *)
(***************************************************************************)
NextOne ==
  \/ \E p \in Procs, u \in Urls : requests = 0 /\ Receive(p, u)
  \/ \E p \in Procs :
       \/ CheckCache(p)
       \/ Extract(p, AllOutcomes)
       \/ LogSuccess(p)
       \/ CacheArticle(p)
       \/ LogPartial(p)
       \/ LogFailed(p)
       \/ SelectReliability(p)
       \/ WriteReliability(p)
       \/ Backoff(p)

SpecOne == Init /\ [][NextOne]_vars

(***************************************************************************)
(* SpecConcurrent: invocations that overlap; a mirror times out or         *)
(* delivers the article                                                    *)
(***************************************************************************)
ConcurrentUrls == {UrlAlice, UrlBlog, UrlFtp}
ConcurrentOutcomes == {FetchAbort, FetchBody(PageFull)}

NextConcurrent ==
  \/ \E p \in Procs, u \in ConcurrentUrls : Receive(p, u)
  \/ \E p \in Procs :
       \/ CheckCache(p)
       \/ LogCacheHit(p)
       \/ Extract(p, ConcurrentOutcomes)
       \/ LogSuccess(p)
       \/ CacheArticle(p)
       \/ LogFailed(p)
       \/ SelectReliability(p)
       \/ WriteReliability(p)
       \/ Backoff(p)

SpecConcurrent == Init /\ [][NextConcurrent]_vars

(***************************************************************************)
(* SpecTimed: a single invocation whose fetches take time: the abort timer *)
(* of extractWithStrategy, the headers and the body of a response are      *)
(* steps of their own, and the caller may disconnect.  The record of the   *)
(* domain may already name a best method.                                  *)
(***************************************************************************)
TimedUrls == {UrlAlice, UrlBlog}
TimedOutcomes == {FetchUnavailable, FetchBody(PageTeaser), FetchBody(PageFull)}
TimedReliability ==
  {{}, {NewReliability(extractUrlPattern(UrlAlice), "archive-is", TRUE, 0)}}

InitTimed ==
  /\ now = 0
  /\ article_cache = {}
  /\ extraction_logs = EmptyBag
  /\ url_reliability \in TimedReliability
  /\ storeUp = TRUE
  /\ probe = NoProbe
  /\ InitBrowser
  /\ InitInvocations

NextTimed ==
  \/ \E u \in TimedUrls : requests = 0 /\ Receive("r1", u)
  \/ CheckCache("r1")
  \/ StartFetch("r1")
  \/ Elapse("r1")
  \/ TimerFires("r1")
  \/ Headers("r1", TimedOutcomes)
  \/ Body("r1")
  \/ Disconnect("r1")
  \/ LogSuccess("r1")
  \/ CacheArticle("r1")
  \/ LogPartial("r1")
  \/ LogFailed("r1")
  \/ SelectReliability("r1")
  \/ WriteReliability("r1")
  \/ Backoff("r1")

SpecTimed == InitTimed /\ [][NextTimed]_vars

(***************************************************************************)
(* SpecFaulty: a single invocation against a store that stops and resumes  *)
(* answering at any moment.  article_cache may already hold an unexpired   *)
(* row of the url.                                                         *)
(***************************************************************************)
FaultyUrls == {UrlAlice, UrlP42}
FaultyOutcomes ==
  {FetchAbort, FetchBody(PageShell), FetchBody(PageTeaser), FetchBody(PageFull)}
FaultyCache ==
  {{}, {CacheRow(UrlAlice,
                 extractWithStrategy(strategies[1], UrlAlice,
                                     FetchBody(PageScenario)).value, 0)}}

InitFaulty ==
  /\ now = 0
  /\ article_cache \in FaultyCache
  /\ extraction_logs = EmptyBag
  /\ url_reliability = {}
  /\ storeUp \in BOOLEAN
  /\ probe = NoProbe
  /\ InitBrowser
  /\ InitInvocations

NextFaulty ==
  \/ \E u \in FaultyUrls : requests = 0 /\ Receive("r1", u)
  \/ Handle("r1", FaultyOutcomes)
  \/ StoreFlips

SpecFaulty == InitFaulty /\ [][NextFaulty]_vars

(***************************************************************************)
(* SpecScore: the two scoring rubrics applied to extracted fields drawn    *)
(* around every threshold they test                                        *)
(***************************************************************************)
ScoreTitles ==
  {"", "Untitled Article", "Hello", "Hello You", "Eleven char",
   "A Tale of Two Mirrors"}
ScoreAuthors ==
  {"", "Al", "Alice", "Alice B",
   "Alice Beatrice Cornelia Dorothea Eleonora Franziska"}
ScoreWords == {0, 51, 101, 301, 501, 1001, 2001}
ScoreParagraphs == {0, 2, 4, 6, 9, 11}
ScoreImages == {0, 1, 2, 4}
ScoreExtras ==
  {[headings |-> 0, quotes |-> 0, lists |-> 0, links |-> 0,
    minRead |-> FALSE, readingTime |-> FALSE],
   [headings |-> 0, quotes |-> 0, lists |-> 0, links |-> 5,
    minRead |-> FALSE, readingTime |-> TRUE],
   [headings |-> 3, quotes |-> 1, lists |-> 2, links |-> 6,
    minRead |-> TRUE, readingTime |-> FALSE]}

ScoreInputs ==
  {[fn |-> "input", calls |-> 1, score |-> 0, again |-> 0,
    extracted |-> [title |-> t, author |-> a, words |-> w, paragraphs |-> g,
                   images |-> i, headings |-> x.headings, quotes |-> x.quotes,
                   lists |-> x.lists, links |-> x.links],
    html |-> [minRead |-> x.minRead, readingTime |-> x.readingTime]] :
     t \in ScoreTitles, a \in ScoreAuthors, w \in ScoreWords,
     g \in ScoreParagraphs, i \in ScoreImages, x \in ScoreExtras}

InitScore ==
  /\ now = 0
  /\ article_cache = {}
  /\ extraction_logs = EmptyBag
  /\ url_reliability = {}
  /\ storeUp = TRUE
  /\ probe \in ScoreInputs
  /\ InitBrowser
  /\ InitInvocations

NextScore == ScoreHandler \/ ScoreClient \/ ScoreAgain

SpecScore == InitScore /\ [][NextScore]_vars

(***************************************************************************)
(* Properties                                                              *)
(***************************************************************************)
RECURSIVE SumCopies(_, _)
SumCopies(rows, bag) ==
  IF rows = {} THEN 0
  ELSE LET r == CHOOSE x \in rows : TRUE
       IN CopiesIn(r, bag) + SumCopies(rows \ {r}, bag)

\* the log rows of the invocation p is handling, and how many have a status
LogRowsOf(p) == {r \in BagToSet(extraction_logs) : r.req = req[p]}
LogCount(p, statuses) ==
  SumCopies({r \in LogRowsOf(p) : r.status \in statuses}, extraction_logs)

Started(p) == req[p] > 0
Finished(p) == Started(p) /\ pc[p] = "done"
BetweenAttempts(p) == Started(p) /\ pc[p] \in {"extract", "backoff", "done"}

\* the response carries the five article fields of the result a
SameArticle(resp, a) ==
  /\ resp.kind = "article"
  /\ resp.content = a.content
  /\ resp.title = a.title
  /\ resp.author = a.author
  /\ resp.wordCount = a.wordCount
  /\ resp.readingTime = a.readingTime

FullSuccess(resp) == resp.kind = "article" /\ resp.warning = NoText /\ ~resp.cached
PartialSuccess(resp) == resp.kind = "article" /\ resp.warning # NoText /\ ~resp.cached
Failure(resp) == resp.kind = "error"

\* C1: an invocation whose url fails the Medium pattern ends at once in a 400
\* error response, without a fetch, a cache read or write, a log row or a
\* reliability update.
C1_InvalidUrlRejected ==
  \A p \in Procs :
    (Started(p) /\ ~mediumPattern(url[p])) =>
      /\ pc[p] = "done"
      /\ Failure(response[p])
      /\ response[p].status = 400
      /\ seen[p] = NoHistory
      /\ LogRowsOf(p) = {}

C1_Witness ==
  \E p \in Procs :
    /\ Finished(p)
    /\ url[p] = UrlFtp
    /\ response[p] = ErrorResponse(400, "Please provide a valid Medium article URL")

\* C2: once an attempt has scored 60 or more, the invocation calls
\* extractWithStrategy no more, and its response is the full success built
\* from that attempt.
C2_EarlyExit ==
  \A p \in Procs :
    /\ seen[p].beyond = 0
    /\ (Finished(p) /\ seen[p].reached # Null) =>
         /\ FullSuccess(response[p])
         /\ SameArticle(response[p], seen[p].reached)

C2_Witness ==
  \E p \in Procs :
    /\ Finished(p)
    /\ seen[p].reached # Null
    /\ seen[p].reached.completenessScore = 75
    /\ seen[p].reached.method = "freedium-primary"
    /\ seen[p].fetches = 1

C4_OnlyPartial ==
  \A p \in Procs :
    (/\ Finished(p)
     /\ seen[p].returned = 1
     /\ seen[p].best # Null
     /\ seen[p].best.completenessScore = 45) =>
      /\ PartialSuccess(response[p])
      /\ SameArticle(response[p], seen[p].best)

C4_Witness ==
  \E p \in Procs :
    /\ Finished(p)
    /\ seen[p].returned = 1
    /\ seen[p].fetches = 5
    /\ seen[p].best # Null
    /\ seen[p].best.completenessScore = 45
    /\ seen[p].best.method = "freedium-alternative"
    /\ PartialSuccess(response[p])

\* C5: when no attempt reached 60, the invocation answers with the highest
\* result among those that scored in [40, 60), the earlier one on a tie.
C5_BestPartialKept ==
  \A p \in Procs :
    (Finished(p) /\ seen[p].reached = Null /\ seen[p].best # Null) =>
      /\ PartialSuccess(response[p])
      /\ SameArticle(response[p], seen[p].best)

\* the messages extractWithStrategy throws with
AttemptMessages ==
  {extractWithStrategy(strategies[1], UrlAlice, f).error.message :
     f \in {g \in AllOutcomes : ~extractWithStrategy(strategies[1], UrlAlice, g).ok}}

\* C6: when every attempt threw, the response is a failure whose message is
\* not empty and is none of the messages of the attempts.
C6_GenericFailure ==
  \A p \in Procs :
    (Finished(p) /\ seen[p].fetches > 0 /\ seen[p].returned = 0) =>
      /\ Failure(response[p])
      /\ response[p].error # NoText
      /\ response[p].error \notin AttemptMessages

\* C7: every row of article_cache holds a score of 60 or more; an invocation
\* calls cacheArticle at most once, and only one that scored 60 or more and
\* answers with a full success.
C7_CacheOnlySuccess ==
  /\ \A r \in article_cache : r.completeness_score >= 60
  /\ \A p \in Procs :
       /\ seen[p].cacheWrites <= 1
       /\ seen[p].cacheWrites = 1 => seen[p].reached # Null
       /\ Finished(p) =>
            (seen[p].cacheWrites = 1 <=> FullSuccess(response[p]))

C7_Witness ==
  /\ \E r \in article_cache : r.url = UrlAlice
  /\ \E p \in Procs :
       /\ Finished(p)
       /\ url[p] = UrlP42
       /\ PartialSuccess(response[p])
       /\ \A r \in article_cache : r.url # UrlP42

\* C8: between attempts, updateReliability has been called once for each
\* attempt made, with success = true for the attempt that scored 60 or more
\* and success = false for every other.
C8_ReliabilityPerAttempt ==
  \A p \in Procs :
    BetweenAttempts(p) =>
      /\ seen[p].reliability = seen[p].fetches
      /\ seen[p].reliabilityOk = (IF seen[p].reached # Null THEN 1 ELSE 0)

\* C9, state part: between attempts of a cache miss the invocation has one
\* log row per attempt made: 'success' for a score of 60 or more, 'partial'
\* for a lower score, 'failed' for a throw; a cache hit has the single row
\* (1, 'cache', 'success').
C9_LogRows ==
  \A p \in Procs :
    /\ (BetweenAttempts(p) /\ seen[p].unexpired = {}) =>
         /\ LogCount(p, {"success", "partial", "failed"}) = seen[p].fetches
         /\ LogCount(p, {"success"}) = (IF seen[p].reached # Null THEN 1 ELSE 0)
         /\ LogCount(p, {"failed"}) = seen[p].fetches - seen[p].returned
         /\ \A r \in LogRowsOf(p) : r.method # "cache"
    /\ (Finished(p) /\ seen[p].unexpired # {}) =>
         /\ LogCount(p, {"success", "partial", "failed"}) = 1
         /\ \A r \in LogRowsOf(p) :
              r.method = "cache" /\ r.status = "success" /\ r.attempt_number = 1

\* C9, step part: no step removes or changes a row of extraction_logs.
C9_AppendOnly ==
  \A r \in BagToSet(extraction_logs) :
    CopiesIn(r, extraction_logs') >= CopiesIn(r, extraction_logs)

\* C9: the number and the statuses of the log rows of an invocation, and the
\* log being append-only.
C9_LogPerAttempt == []C9_LogRows /\ [][C9_AppendOnly]_vars

C9_Witness ==
  \E p \in Procs :
    /\ Finished(p)
    /\ req[p] = 2
    /\ seen[p].unexpired # {}
    /\ LogCount(p, {"success"}) = 1
    /\ \E r \in BagToSet(extraction_logs) : r.req = 1 /\ r.status = "partial"
    /\ \E r \in BagToSet(extraction_logs) : r.req = 1 /\ r.status = "failed"
    /\ \E r \in BagToSet(extraction_logs) :
         r.req = 1 /\ r.status = "success" /\ r.method = "archive-is"

\* the url patterns of the urls the model draws
Patterns == {extractUrlPattern(u) : u \in {UrlAlice, UrlP42, UrlBlog}}

\* calls of updateReliability for a pattern, by the log rows of the attempts
UpdatesFor(pattern, statuses) ==
  SumCopies({r \in BagToSet(extraction_logs) :
               /\ r.method # "cache"
               /\ r.status \in statuses
               /\ extractUrlPattern(r.url) = pattern}, extraction_logs)

\* C10: when no invocation is running, the record of a domain counts every
\* attempt that updated it and every success among them.
C10_NoLostUpdate ==
  InFlight = {} =>
    \A pattern \in Patterns :
      UpdatesFor(pattern, {"success", "failed"}) > 0 =>
        \E r \in url_reliability :
          /\ r.url_pattern = pattern
          /\ r.total_attempts = UpdatesFor(pattern, {"success", "failed"})
          /\ r.successful_attempts = UpdatesFor(pattern, {"success"})

\* C11: every row of url_reliability has total_attempts >= successful_attempts
\* and successful_attempts >= 0, whatever the interleaving of the selects and
\* writes of updateReliability of overlapping invocations.
C11_TotalAtLeastSuccessful ==
  \A r \in url_reliability :
    /\ r.successful_attempts >= 0
    /\ r.total_attempts >= r.successful_attempts

\* two invocations have written the record from the same row they both
\* selected, and a third update followed
C11_Witness ==
  \E r \in url_reliability :
    /\ r.successful_attempts = 2
    /\ r.total_attempts = 2
    /\ UpdatesFor(r.url_pattern, {"success", "failed"}) > 2
    /\ UpdatesFor(r.url_pattern, {"failed"}) >= 1

\* the configured order of attempts: each strategy of the list in turn, as
\* many times as its retry budget
RECURSIVE AttemptsFrom(_)
AttemptsFrom(i) ==
  IF i > Len(strategies) THEN <<>>
  ELSE [k \in 1..maxRetries(i - 1) |-> strategies[i].method] \o AttemptsFrom(i + 1)
ConfiguredOrder == AttemptsFrom(1)

IsPrefix(s, t) == Len(s) <= Len(t) /\ s = SubSeq(t, 1, Len(s))
Fetching(p) == pc[p] \in {"fetch", "body"}

\* C12: the attempts of an invocation begin in the configured order, whatever
\* url_reliability holds; an attempt begins only when every earlier one has
\* completed, so at most one fetch is in flight.
C12_SequentialInOrder ==
  \A p \in Procs :
    /\ IsPrefix(seen[p].order, ConfiguredOrder)
    /\ seen[p].started = Len(seen[p].order)
    /\ seen[p].started - seen[p].fetches = (IF Fetching(p) THEN 1 ELSE 0)
    /\ Fetching(p) =>
         seen[p].order[seen[p].started] = strategies[strategyIndex[p] + 1].method

\* all five attempts, on a domain whose record names archive-is as best
C12_Witness ==
  \E p \in Procs :
    /\ Finished(p)
    /\ seen[p].order = ConfiguredOrder
    /\ seen[p].fetches = 5
    /\ \E r \in url_reliability :
         /\ r.url_pattern = extractUrlPattern(url[p])
         /\ r.best_method = "archive-is"
         /\ r.total_attempts = 6

\* the attempt numbers and the retry budgets along the configured order
RECURSIVE NumbersFrom(_)
NumbersFrom(i) ==
  IF i > Len(strategies) THEN <<>>
  ELSE [k \in 1..maxRetries(i - 1) |-> <<k, maxRetries(i - 1)>>] \o NumbersFrom(i + 1)

\* the sleeps due once the first n attempts have completed without ending
\* the request: 1000 * 2^(k-1) ms after attempt k of a budget m > k
RECURSIVE SleepsAfter(_)
SleepsAfter(n) ==
  IF n = 0 THEN <<>>
  ELSE LET k == NumbersFrom(1)[n][1]
           m == NumbersFrom(1)[n][2]
       IN IF k < m THEN Append(SleepsAfter(n - 1), 1000 * 2^(k - 1))
          ELSE SleepsAfter(n - 1)

\* C13: when the next attempt is about to begin, the invocation has slept
\* 1000 * 2^(k-1) ms after every attempt k below the budget of its strategy
\* and not at all after an attempt that used the budget up; until then the
\* sleep after the attempt just made has not begun.
C13_BackoffSleeps ==
  \A p \in Procs :
    /\ pc[p] = "extract" => seen[p].sleeps = SleepsAfter(seen[p].fetches)
    /\ (Started(p) /\ pc[p] # "extract" /\ seen[p].fetches > 0) =>
         seen[p].sleeps = SleepsAfter(seen[p].fetches - 1)

\* a retry after a low score, then the second strategy at once
C13_Witness ==
  \E p \in Procs :
    /\ pc[p] = "extract"
    /\ strategyIndex[p] = 2
    /\ seen[p].returned = 2
    /\ seen[p].fetches = 3
    /\ seen[p].sleeps = <<1000>>

\* C14: while a call of extractWithStrategy is running, fetch or body, no
\* more than strategy.timeout ms have passed since it began.
C14_TimeoutCoversBody ==
  \A p \in Procs :
    Fetching(p) => elapsed[p] <= strategies[strategyIndex[p] + 1].timeout

\* C15: once the caller has disconnected, the invocation begins no attempt
\* and no backoff sleep, does not go on to read a body, and writes to no
\* table.
C15_CancellationStops ==
  [][\A p \in Procs :
       cancelled[p] =>
         /\ seen'[p].started = seen[p].started
         /\ seen'[p].sleeps = seen[p].sleeps
         /\ pc[p] = "fetch" => pc'[p] # "body"
         /\ tables' = tables]_vars

\* C16, state part: the lookup of a finished invocation returned a row if and
\* only if article_cache held a row of the url with expires_at > now at that
\* moment; without such a row, an expired one included, the invocation ran
\* the strategy loop and did not answer from the cache.
C16_ServedWhileUnexpired ==
  \A p \in Procs :
    (Finished(p) /\ seen[p].cacheReads = 1) =>
      /\ (cached[p] # Null) = (seen[p].unexpired # {})
      /\ cached[p] # Null => cached[p] \in seen[p].unexpired
      /\ seen[p].unexpired = {} =>
           /\ seen[p].fetches >= 1
           /\ response[p].kind = "article" => ~response[p].cached

\* C16, step part: a row that enters article_cache expires 7 days after the
\* step; a row leaves article_cache only once its expires_at is in the past.
C16_TtlAndRemoval ==
  /\ \A r \in article_cache' \ article_cache : r.expires_at = now + 7
  /\ \A r \in article_cache \ article_cache' : r.expires_at < now

\* C16: the lifetime of a cache entry.
C16_CacheExpiry == []C16_ServedWhileUnexpired /\ [][C16_TtlAndRemoval]_vars

\* a request at the instant the row of its url expires: the row is still in
\* the table, the lookup misses and the strategy loop runs
C16_Witness ==
  \E p \in Procs :
    /\ Finished(p)
    /\ req[p] = 2
    /\ seen[p].unexpired = {}
    /\ seen[p].fetches >= 1
    /\ \E r \in BagToSet(extraction_logs) :
         r.req = 1 /\ r.url = url[p] /\ r.status = "success"
    /\ \E r \in article_cache : r.url = url[p] /\ r.expires_at = now

\* C17: when the last invocation has extracted its url with success and no
\* time has passed since, article_cache holds one row of that url, with the
\* content fields of that extraction and an expires_at 7 days after it.
C17_LastWriteWins ==
  \A p \in Procs :
    (/\ Finished(p)
     /\ InFlight = {}
     /\ req[p] = requests
     /\ seen[p].cacheWrites = 1
     /\ seen[p].cachedAt = now) =>
      /\ Cardinality({r \in article_cache : r.url = url[p]}) = 1
      /\ \A r \in article_cache :
           r.url = url[p] =>
             /\ r.content = seen[p].reached.content
             /\ r.title = seen[p].reached.title
             /\ r.author = seen[p].reached.author
             /\ r.word_count = seen[p].reached.wordCount
             /\ r.reading_time = seen[p].reached.readingTime
             /\ r.expires_at = seen[p].cachedAt + 7

\* the rows of a table a lookup at time t can serve
Servable(table, t) == {r \in table : SelectCache(table, r.url, t) = r}

\* C18, state part: on the table as it stands, a second sweep right after a
\* sweep changes nothing, and a sweep keeps every row a lookup at that
\* instant can serve.
C18_Idempotent ==
  LET once == clean_expired_cache(article_cache, now)
  IN /\ clean_expired_cache(once, now) = once
     /\ Servable(once, now) = Servable(article_cache, now)

\* C18, step part: a step that removes rows, whatever the invocation is doing
\* at that moment, removes only rows with expires_at in the past, none that a
\* lookup at that instant serves, and leaves nothing for a second sweep.
C18_DeletesOnlyExpired ==
  (article_cache \ article_cache' # {}) =>
    /\ \A r \in article_cache \ article_cache' :
         r.expires_at < now /\ r \notin Servable(article_cache, now)
    /\ Servable(article_cache', now) = Servable(article_cache, now)
    /\ clean_expired_cache(article_cache', now) = article_cache'

\* C18: the expiry sweep.
C18_SweepSafe == []C18_Idempotent /\ [][C18_DeletesOnlyExpired]_vars

\* the sweep has removed the row of one url and kept the row of another
C18_Witness ==
  /\ now = 8
  /\ \E r \in BagToSet(extraction_logs) :
       r.url = UrlAlice /\ r.method # "cache" /\ r.status = "success"
  /\ \A r \in article_cache : r.url # UrlAlice
  /\ \E r \in article_cache : r.url = UrlP42 /\ r.expires_at > now

\* the response the fetch outcomes of an invocation call for, by its history
ResponseFor(h) ==
  IF h.reached # Null THEN ArticleResponse(h.reached, FALSE, NoText)
  ELSE IF h.last # Null /\ h.last.completenessScore >= 40
  THEN ArticleResponse(h.last, FALSE, PartialWarning)
  ELSE ErrorResponse(500, IF h.thrown # NoText THEN h.thrown
                          ELSE "All extraction methods failed")

\* C19: whether or not the store answered its statements, a finished
\* invocation that got a row from checkCache answers with that row, and any
\* other answers with what its fetch outcomes alone call for; it made its
\* attempts in the configured order, all of them unless one scored 60 or
\* more, and called updateReliability with success = false once per throw.
C19_StoreFailuresHarmless ==
  \A p \in Procs :
    (Finished(p) /\ seen[p].cacheReads = 1) =>
      IF cached[p] # Null
      THEN /\ response[p] = CachedResponse(cached[p])
           /\ cached[p] \in seen[p].unexpired
           /\ seen[p].fetches = 0
      ELSE /\ response[p] = ResponseFor(seen[p])
           /\ IsPrefix(seen[p].order, ConfiguredOrder)
           /\ seen[p].reached = Null => seen[p].order = ConfiguredOrder
           /\ seen[p].beyond = 0
           /\ seen[p].reliability - seen[p].reliabilityOk
                = seen[p].fetches - seen[p].returned

\* the cache read, the log inserts, the cache write and the reliability
\* updates of an invocation have all failed, and it answers with the article
\* its second attempt fetched
C19_Witness ==
  \E p \in Procs :
    /\ Finished(p)
    /\ seen[p].unexpired # {}
    /\ cached[p] = Null
    /\ seen[p].fetches = 2
    /\ seen[p].cacheWrites = 1
    /\ seen[p].reliability = 2
    /\ extraction_logs = EmptyBag
    /\ url_reliability = {}
    /\ article_cache = seen[p].unexpired
    /\ response[p] = ArticleResponse(seen[p].reached, FALSE, NoText)
    /\ response[p].content = "full"

\* C20: either rubric gives an integer from 0 to 100, 0 for input that meets
\* no criterion, and the same value when called again with the same arguments.
C20_ScoreInRange ==
  probe.fn \in {"handler", "client"} =>
    /\ probe.score \in 0..100
    /\ probe.calls = 2 => probe.again = probe.score
    /\ (/\ probe.extracted.title = ""
        /\ probe.extracted.author = ""
        /\ probe.extracted.words = 0
        /\ probe.extracted.paragraphs = 0
        /\ probe.extracted.images = 0
        /\ probe.extracted.headings = 0
        /\ ~probe.html.minRead
        /\ ~probe.html.readingTime) => probe.score = 0

\* input that meets every criterion of the client's rubric (110 points before
\* the clamp), scored twice
C20_Witness ==
  /\ probe.fn = "client"
  /\ probe.calls = 2
  /\ probe.score = 100
  /\ Len(probe.extracted.title) > 20
  /\ Len(probe.extracted.author) > 5
  /\ probe.extracted.words > 2000
  /\ probe.extracted.paragraphs > 10
  /\ probe.extracted.images > 3
  /\ probe.extracted.links > 5
  /\ probe.html.minRead


(***************************************************************************)
(* updateReliability: best_method and last_success_at                      *)
(***************************************************************************)
\* the row of url_reliability of a pattern in a table, Null when there is none
RowOf(table, pattern) == SelectReliabilityRow(table, pattern)

\* C21: the write of an updateReliability call with success = false leaves
\* best_method and last_success_at of the record of the domain as they were
\* (null on a record it creates); the write of a call with success = true
\* sets them to the method of the attempt and to the current time.
C21_BestMethodFrame ==
  [][\A p \in Procs :
       (pc[p] = "writeReliability" /\ pc'[p] # "writeReliability" /\ storeUp) =>
         LET pattern == extractUrlPattern(url[p])
             before == RowOf(url_reliability, pattern)
             after == RowOf(url_reliability', pattern)
         IN /\ after # Null
            /\ IF success[p]
               THEN /\ after.best_method = strategies[strategyIndex[p] + 1].method
                    /\ after.last_success_at = now
               ELSE IF before = Null
               THEN /\ after.best_method = NoText
                    /\ after.last_success_at = NoTime
               ELSE /\ after.best_method = before.best_method
                    /\ after.last_success_at = before.last_success_at]_vars


(***************************************************************************)
(* sanitizeContent, on markup as a sequence of characters.  A pattern of   *)
(* the source is a record; MatchEnd gives the end of its match at an       *)
(* index, and ReplaceFrom is String.prototype.replace with the g flag.     *)
(***************************************************************************)
Whitespace == {" ", "\n", "\t"}
WordChars == (LabelChars \ {"-"}) \cup {"_"}
Uppers ==
  <<"A","B","C","D","E","F","G","H","I","J","K","L","M","N","O","P","Q","R",
    "S","T","U","V","W","X","Y","Z">>
Lowers ==
  <<"a","b","c","d","e","f","g","h","i","j","k","l","m","n","o","p","q","r",
    "s","t","u","v","w","x","y","z">>
\* the i flag: letters match in either case
Lower(c) ==
  IF \E k \in 1..Len(Uppers) : Uppers[k] = c
  THEN Lowers[CHOOSE k \in 1..Len(Uppers) : Uppers[k] = c]
  ELSE c
MatchAtI(s, i, lit) ==
  /\ i >= 1
  /\ i + Len(lit) - 1 <= Len(s)
  /\ \A k \in 1..Len(lit) : Lower(s[i + k - 1]) = lit[k]
\* the least index from i on where lit matches, 0 when there is none
FirstAt(s, i, lit) ==
  LET js == {j \in i..Len(s) : MatchAtI(s, j, lit)}
  IN IF js = {} THEN 0 ELSE CHOOSE j \in js : \A k \in js : j <= k
\* the last index of the longest run of characters of a class from i on,
\* i - 1 when s[i] is not of the class
RunEnd(s, i, class) ==
  LET stops == {j \in i..Len(s) : s[j] \notin class}
  IN IF stops = {} THEN Len(s)
     ELSE (CHOOSE j \in stops : \A k \in stops : j <= k) - 1
Occurrences(s, lit) == Cardinality({i \in 1..Len(s) : MatchAtI(s, i, lit)})

C_GT == <<">">>
C_QUOTE == <<"\"">>
C_APOS == <<"'">>
C_CLASS_ATTR == <<"c","l","a","s","s","=","\"">>
C_TESTID_ATTR == <<"d","a","t","a","-","t","e","s","t","i","d","=","\"">>
C_COMMENT_OPEN == <<"<","!","-","-">>
C_COMMENT_CLOSE == <<"-","-",">">>
C_ON == <<"o","n">>
C_DATA == <<"d","a","t","a","-">>
C_HREF_JS_QUOTE == <<"h", "r", "e", "f", "=", "\"", "j", "a", "v", "a", "s",
  "c", "r", "i", "p", "t", ":">>
C_HREF_JS_APOS == <<"h", "r", "e", "f", "=", "'", "j", "a", "v", "a", "s",
  "c", "r", "i", "p", "t", ":">>
C_HREF_HASH_QUOTE == <<"h","r","e","f","=","\"","#","\"">>
C_HREF_HASH_APOS == <<"h","r","e","f","=","'","#","'">>
T_SCRIPT == <<"s","c","r","i","p","t">>
T_STYLE == <<"s","t","y","l","e">>
T_NOSCRIPT == <<"n","o","s","c","r","i","p","t">>
T_IFRAME == <<"i","f","r","a","m","e">>
T_FORM == <<"f","o","r","m">>
T_INPUT == <<"i","n","p","u","t">>
T_BUTTON == <<"b","u","t","t","o","n">>
T_SELECT == <<"s","e","l","e","c","t">>
T_TEXTAREA == <<"t","e","x","t","a","r","e","a">>
T_NAV == <<"n","a","v">>
T_FOOTER == <<"f","o","o","t","e","r">>
T_HEADER == <<"h","e","a","d","e","r">>
T_ASIDE == <<"a","s","i","d","e">>
T_DIV == <<"d","i","v">>
T_SVG == <<"s","v","g">>
T_LINK == <<"l","i","n","k">>
T_META == <<"m","e","t","a">>
T_P == <<"p">>
T_IMG == <<"i","m","g">>
W_SITE_HEADER == <<"s","i","t","e","-","h","e","a","d","e","r">>
W_MAIN_HEADER == <<"m","a","i","n","-","h","e","a","d","e","r">>
W_TOP_HEADER == <<"t","o","p","-","h","e","a","d","e","r">>
W_NAVIGATION == <<"n","a","v","i","g","a","t","i","o","n">>
W_CLAP == <<"c","l","a","p">>
W_FOLLOW == <<"f","o","l","l","o","w">>
W_SHARE == <<"s","h","a","r","e">>
W_SUBSCRIBE == <<"s","u","b","s","c","r","i","b","e">>
W_HIGHLIGHT == <<"h","i","g","h","l","i","g","h","t">>
W_TOOLTIP == <<"t","o","o","l","t","i","p">>
W_POPUP == <<"p","o","p","u","p">>
W_MODAL == <<"m","o","d","a","l">>
W_TRACK == <<"t","r","a","c","k">>
W_ANALYTICS == <<"a","n","a","l","y","t","i","c","s">>
W_PIXEL == <<"p","i","x","e","l">>
W_BEACON == <<"b","e","a","c","o","n">>

\* /<tag[^>]*>[\s\S]*?<\/tag>/gi
Paired(tag) ==
  [kind |-> "paired", open |-> <<"<">> \o tag,
   close |-> <<"<","/">> \o tag \o C_GT, with |-> <<>>]
\* /<tag[^>]*>/gi
Void(tag) == [kind |-> "void", open |-> <<"<">> \o tag, with |-> <<>>]
\* /<tag[^>]*attr="[^"]*(?:w1|w2|..)[^"]*"[^>]*>[\s\S]*?<\/tag>/gi
Classed(tag, attr, words) ==
  [kind |-> "classed", open |-> <<"<">> \o tag, attr |-> attr, words |-> words,
   close |-> <<"<","/">> \o tag \o C_GT, with |-> <<>>]
\* /<!--[\s\S]*?-->/g
Comment ==
  [kind |-> "comment", open |-> C_COMMENT_OPEN, close |-> C_COMMENT_CLOSE,
   with |-> <<>>]
\* /\s*name[class]+=q[^q]*q/gi, or [class]* when least = 0
Attribute(prefixes, class, least, q) ==
  [kind |-> "attribute", names |-> prefixes, class |-> class, least |-> least,
   quote |-> q, with |-> <<>>]
\* /href=qjavascript:[^q]*q/gi, replaced by href=q#q
Literal(open, q, with) ==
  [kind |-> "literal", open |-> open, quote |-> q, with |-> with]
\* /\n\s*\n\s*\n/g, replaced by two newlines
BlankLines == [kind |-> "blank", with |-> <<"\n","\n">>]
\* /\s{3,}/g, replaced by one space
Spaces == [kind |-> "spaces", with |-> <<" ">>]

\* the index of the last character of the match of a pattern that starts at
\* index i of s, 0 when the pattern does not match there
PairedEnd(pat, s, i) ==
  IF ~MatchAtI(s, i, pat.open) THEN 0
  ELSE LET g == FirstAt(s, i + Len(pat.open), C_GT)
       IN IF g = 0 THEN 0
          ELSE LET c == FirstAt(s, g + 1, pat.close)
               IN IF c = 0 THEN 0 ELSE c + Len(pat.close) - 1
VoidEnd(pat, s, i) ==
  IF ~MatchAtI(s, i, pat.open) THEN 0
  ELSE FirstAt(s, i + Len(pat.open), C_GT)
CommentEnd(pat, s, i) ==
  IF ~MatchAtI(s, i, pat.open) THEN 0
  ELSE LET c == FirstAt(s, i + Len(pat.open), pat.close)
       IN IF c = 0 THEN 0 ELSE c + Len(pat.close) - 1
ClassedEnd(pat, s, i) ==
  IF ~MatchAtI(s, i, pat.open) THEN 0
  ELSE LET from == i + Len(pat.open)
           \* where attr=" may start: no ">" before it, one of the words
           \* before the closing quote, and a ">" and the end tag after it
           EndFrom(a) ==
             LET v == a + Len(pat.attr)
                 q == FirstAt(s, v, C_QUOTE)
                 g == IF q = 0 THEN 0 ELSE FirstAt(s, q + 1, C_GT)
                 c == IF g = 0 THEN 0 ELSE FirstAt(s, g + 1, pat.close)
             IN IF /\ c > 0
                   /\ \E w \in pat.words : \E j \in v..(q - 1) :
                        MatchAtI(s, j, w) /\ j + Len(w) - 1 < q
                THEN c + Len(pat.close) - 1
                ELSE 0
           as == {a \in from..Len(s) :
                    /\ MatchAtI(s, a, pat.attr)
                    /\ \A j \in from..(a - 1) : s[j] # ">"
                    /\ EndFrom(a) > 0}
       IN IF as = {} THEN 0
          ELSE EndFrom(CHOOSE a \in as : \A b \in as : b <= a)
AttributeEnd(pat, s, i) ==
  LET j == RunEnd(s, i, Whitespace) + 1
      ns == {n \in pat.names : MatchAtI(s, j, n)}
  IN IF ns = {} THEN 0
     ELSE LET n == CHOOSE m \in ns : TRUE
              k == RunEnd(s, j + Len(n), pat.class)
          IN IF /\ k - (j + Len(n)) + 1 >= pat.least
                /\ k + 2 <= Len(s)
                /\ s[k + 1] = "="
                /\ s[k + 2] = pat.quote[1]
             THEN FirstAt(s, k + 3, pat.quote)
             ELSE 0
LiteralEnd(pat, s, i) ==
  IF ~MatchAtI(s, i, pat.open) THEN 0
  ELSE FirstAt(s, i + Len(pat.open), pat.quote)
BlankEnd(s, i) ==
  IF i > Len(s) \/ s[i] # "\n" THEN 0
  ELSE LET e == RunEnd(s, i, Whitespace)
           ns == {j \in (i + 1)..e : s[j] = "\n"}
       IN IF Cardinality(ns) < 2 THEN 0
          ELSE CHOOSE j \in ns : \A k \in ns : k <= j
SpacesEnd(s, i) ==
  LET e == RunEnd(s, i, Whitespace)
  IN IF e - i + 1 >= 3 THEN e ELSE 0
MatchEnd(pat, s, i) ==
  CASE pat.kind = "paired" -> PairedEnd(pat, s, i)
    [] pat.kind = "void" -> VoidEnd(pat, s, i)
    [] pat.kind = "comment" -> CommentEnd(pat, s, i)
    [] pat.kind = "classed" -> ClassedEnd(pat, s, i)
    [] pat.kind = "attribute" -> AttributeEnd(pat, s, i)
    [] pat.kind = "literal" -> LiteralEnd(pat, s, i)
    [] pat.kind = "blank" -> BlankEnd(s, i)
    [] pat.kind = "spaces" -> SpacesEnd(s, i)

\* content.replace(pattern, with): the matches are found left to right in
\* the string as it was, each search resuming after the previous match
RECURSIVE ReplaceFrom(_, _, _)
ReplaceFrom(pat, s, i) ==
  LET starts == {j \in i..Len(s) : MatchEnd(pat, s, j) > 0}
  IN IF starts = {} THEN SubSeq(s, i, Len(s))
     ELSE LET j == CHOOSE k \in starts : \A m \in starts : k <= m
          IN SubSeq(s, i, j - 1) \o pat.with
               \o ReplaceFrom(pat, s, MatchEnd(pat, s, j) + 1)
\* for (const pattern of removePatterns) content = content.replace(..);
\* no pattern matches in the empty text, which stays as it is
RECURSIVE ReplaceEach(_, _, _)
ReplaceEach(pats, s, n) ==
  IF n > Len(pats) \/ s = <<>> THEN s
  ELSE ReplaceEach(pats, ReplaceFrom(pats[n], s, 1), n + 1)
\* String.prototype.trim
trim(s) ==
  LET keep == {j \in 1..Len(s) : s[j] \notin Whitespace}
  IN IF keep = {} THEN <<>>
     ELSE SubSeq(s, CHOOSE j \in keep : \A k \in keep : j <= k,
                 CHOOSE j \in keep : \A k \in keep : k <= j)

\* sanitizeContent of the handler: the patterns in the order of the source
removePatterns ==
  <<Paired(T_SCRIPT), Paired(T_STYLE), Paired(T_NOSCRIPT), Paired(T_IFRAME),
    Paired(T_FORM), Void(T_INPUT), Paired(T_BUTTON), Paired(T_NAV),
    Paired(T_FOOTER),
    Classed(T_HEADER, C_CLASS_ATTR, {W_SITE_HEADER, W_MAIN_HEADER, W_TOP_HEADER}),
    Paired(T_ASIDE), Comment, Paired(T_SVG), Void(T_LINK), Void(T_META)>>
attributePatterns ==
  <<Attribute({C_ON}, WordChars, 1, C_QUOTE),
    Attribute({C_ON}, WordChars, 1, C_APOS),
    Literal(C_HREF_JS_QUOTE, C_QUOTE, C_HREF_HASH_QUOTE),
    Literal(C_HREF_JS_APOS, C_APOS, C_HREF_HASH_APOS),
    Attribute({C_DATA}, WordChars \cup {"-"}, 1, C_QUOTE),
    BlankLines>>
sanitizeContent(content) ==
  trim(ReplaceEach(removePatterns \o attributePatterns, content, 1))

\* ArticleFetcher.sanitizeContent
ArticleFetcher_removePatterns ==
  <<Paired(T_SCRIPT), Paired(T_STYLE), Paired(T_NOSCRIPT), Paired(T_IFRAME),
    Paired(T_FORM), Void(T_INPUT), Paired(T_BUTTON), Paired(T_SELECT),
    Paired(T_TEXTAREA), Paired(T_NAV), Paired(T_FOOTER),
    Classed(T_HEADER, C_CLASS_ATTR,
            {W_SITE_HEADER, W_MAIN_HEADER, W_TOP_HEADER, W_NAVIGATION}),
    Paired(T_ASIDE),
    Classed(T_DIV, C_CLASS_ATTR,
            {W_CLAP, W_FOLLOW, W_SHARE, W_SUBSCRIBE, W_HIGHLIGHT, W_TOOLTIP,
             W_POPUP, W_MODAL}),
    Classed(T_DIV, C_TESTID_ATTR, {W_CLAP, W_FOLLOW, W_SHARE, W_SUBSCRIBE}),
    Comment, Paired(T_SVG), Void(T_LINK), Void(T_META)>>
ArticleFetcher_attributePatterns ==
  <<Attribute({C_ON}, WordChars, 1, C_QUOTE),
    Attribute({C_ON}, WordChars, 1, C_APOS),
    Literal(C_HREF_JS_QUOTE, C_QUOTE, C_HREF_HASH_QUOTE),
    Literal(C_HREF_JS_APOS, C_APOS, C_HREF_HASH_APOS),
    Attribute({C_DATA \o W_TRACK, C_DATA \o W_ANALYTICS, C_DATA \o W_PIXEL,
               C_DATA \o W_BEACON}, WordChars \cup {"-"}, 0, C_QUOTE),
    BlankLines, Spaces>>
ArticleFetcher_sanitizeContent(content) ==
  trim(ReplaceEach(ArticleFetcher_removePatterns
                     \o ArticleFetcher_attributePatterns, content, 1))


(***************************************************************************)
(* SpecSanitize: both sanitizers applied to markup put together from       *)
(* fragments: paragraphs and images, closed script and style elements, a   *)
(* script tag split in two, handlers with quoted and unquoted values       *)
(***************************************************************************)
MaxFragments == 3

\* <p>hi</p>
FragmentParagraph == <<"<","p",">","h","i","<","/","p",">">>
\* <img src="a.png">
FragmentImage == <<"<", "i", "m", "g", " ", "s", "r", "c", "=", "\"", "a",
  ".", "p", "n", "g", "\"", ">">>
\* <script>x</script>
FragmentScript == <<"<", "s", "c", "r", "i", "p", "t", ">", "x", "<", "/",
  "s", "c", "r", "i", "p", "t", ">">>
\* <style>x</style>
FragmentStyle == <<"<", "s", "t", "y", "l", "e", ">", "x", "<", "/", "s",
  "t", "y", "l", "e", ">">>
\* <SCRIPT>x</SCRIPT>
FragmentUpper == <<"<", "S", "C", "R", "I", "P", "T", ">", "x", "<", "/",
  "S", "C", "R", "I", "P", "T", ">">>
\* <scr
FragmentScr == <<"<","s","c","r">>
\* ipt>
FragmentIpt == <<"i","p","t",">">>
\* <img src=x onerror=alert(1)>
FragmentUnquoted == <<"<", "i", "m", "g", " ", "s", "r", "c", "=", "x", " ",
  "o", "n", "e", "r", "r", "o", "r", "=", "a", "l", "e", "r", "t", "(", "1",
  ")", ">">>
\* <p onclick="x()">t</p>
FragmentQuoted == <<"<", "p", " ", "o", "n", "c", "l", "i", "c", "k", "=",
  "\"", "x", "(", ")", "\"", ">", "t", "<", "/", "p", ">">>
\* <div class="share">s</div>
FragmentShare == <<"<", "d", "i", "v", " ", "c", "l", "a", "s", "s", "=",
  "\"", "s", "h", "a", "r", "e", "\"", ">", "s", "<", "/", "d", "i", "v", ">">>
Fragments ==
  {FragmentParagraph, FragmentImage, FragmentScript, FragmentStyle,
   FragmentUpper, FragmentScr, FragmentIpt, FragmentUnquoted, FragmentQuoted,
   FragmentShare}
RECURSIVE Concat(_)
Concat(parts) ==
  IF parts = <<>> THEN <<>> ELSE Head(parts) \o Concat(Tail(parts))
Markups ==
  {Concat(parts) : parts \in UNION {[1..n -> Fragments] : n \in 1..MaxFragments}}

InitSanitize ==
  /\ now = 0
  /\ article_cache = {}
  /\ extraction_logs = EmptyBag
  /\ url_reliability = {}
  /\ storeUp = TRUE
  /\ probe \in {[fn |-> "markup", content |-> m, out |-> <<>>] : m \in Markups}
  /\ InitBrowser
  /\ InitInvocations

\* sanitizeContent(content) of the handler, on the probe
SanitizeHandler ==
  /\ probe.fn = "markup"
  /\ probe' = [probe EXCEPT !.fn = "sanitizeContent",
                            !.out = sanitizeContent(probe.content)]
  /\ UNCHANGED <<now, requests, tables, pc, req, url, locals, response, seen,
                 storeUp, wire, cancelled, browser>>

\* ArticleFetcher.sanitizeContent(content), on the probe
SanitizeClient ==
  /\ probe.fn = "markup"
  /\ probe' = [probe EXCEPT !.fn = "ArticleFetcher.sanitizeContent",
                            !.out = ArticleFetcher_sanitizeContent(probe.content)]
  /\ UNCHANGED <<now, requests, tables, pc, req, url, locals, response, seen,
                 storeUp, wire, cancelled, browser>>

NextSanitize == SanitizeHandler \/ SanitizeClient

SpecSanitize == InitSanitize /\ [][NextSanitize]_vars

\* an inline event handler attribute: whitespace, on, word characters, =
HasHandlerAttribute(s) ==
  \E i \in 1..Len(s) :
    /\ s[i] \in Whitespace
    /\ MatchAtI(s, i + 1, C_ON)
    /\ LET k == RunEnd(s, i + 3, WordChars)
       IN k >= i + 3 /\ k + 1 <= Len(s) /\ s[k + 1] = "="
\* every script and style element of s is one of the closed fragments
WellFormed(s) ==
  /\ Occurrences(s, <<"<">> \o T_SCRIPT)
       = Occurrences(s, FragmentScript)
  /\ Occurrences(s, <<"<">> \o T_STYLE) = Occurrences(s, FragmentStyle)
Sanitized(p) == p.fn \in {"sanitizeContent", "ArticleFetcher.sanitizeContent"}

\* C22: the output of sanitizeContent holds no script element, no style
\* element and no inline on*= handler attribute, whatever the markup; the
\* paragraphs and images that are outside the removed elements are kept.
C22_SanitizerRemoves ==
  Sanitized(probe) =>
    /\ Occurrences(probe.out, <<"<">> \o T_SCRIPT) = 0
    /\ Occurrences(probe.out, <<"<">> \o T_STYLE) = 0
    /\ ~HasHandlerAttribute(probe.out)
    /\ WellFormed(probe.content) =>
         /\ Occurrences(probe.out, <<"<">> \o T_P)
              = Occurrences(probe.content, <<"<">> \o T_P)
         /\ Occurrences(probe.out, <<"<">> \o T_IMG)
              = Occurrences(probe.content, <<"<">> \o T_IMG)


(***************************************************************************)
(* The scenario of the alice article                                       *)
(***************************************************************************)
\* invocation p is for the alice url, both attempts of freedium-primary
\* threw, the second by the abort timer, and freedium-alternative returned
\* the page of the scenario
ScenarioRun(p) ==
  /\ url[p] = UrlAlice
  /\ seen[p].order = <<"freedium-primary", "freedium-primary",
                       "freedium-alternative">>
  /\ seen[p].fetches = 3
  /\ seen[p].returned = 1
  /\ seen[p].thrown = "The signal has been aborted"
  /\ seen[p].last # Null
  /\ seen[p].last.content = PageScenario.id

server ==
  <<now, requests, tables, pc, req, url, locals, response, seen, storeUp, wire,
    cancelled, probe>>

HighQualityScore == 70
GoodQualityScore == 40
AcceptableScore == 35
ClientMinHtmlLength == 500
ClientMinTextLength == 200
ClientBackoffBaseMs == 1500

ArticleFetcher_strategies ==
  <<[method |-> "freedium-primary", mirror |-> "https://freedium-mirror.cfd/",
     timeout |-> 30000],
    [method |-> "freedium-alternative", mirror |-> "https://freedium.cfd/",
     timeout |-> 30000],
    [method |-> "scribe-rip", mirror |-> "https://scribe.rip/", timeout |-> 30000],
    [method |-> "direct-cors-proxy",
     mirror |-> "https://api.allorigins.win/raw?url=", timeout |-> 25000],
    [method |-> "direct-cors-alt", mirror |-> "https://corsproxy.io/?",
     timeout |-> 25000]>>

\* const maxRetries = strategyIndex < 2 ? 2 : 1
ArticleFetcher_maxRetries(i) == IF i < 2 THEN 2 ELSE 1

\* 1500 * Math.pow(2, attempt - 1)
ArticleFetcher_backoffMs(n) == ClientBackoffBaseMs * Pow2(n - 1)

ClientWarning ==
  "Article extraction was partially successful. Some content may be missing."

\* pages as the client sees them: the length of the markup, of its text, and
\* the fields its rubric reads
ClientPage(id, htmlLength, textLength, title, author, words, paragraphs, images) ==
  [id |-> id, htmlLength |-> htmlLength, textLength |-> textLength,
   title |-> title, author |-> author, words |-> words,
   paragraphs |-> paragraphs, headings |-> 0, images |-> images, quotes |-> 0,
   lists |-> 0, links |-> 0, minRead |-> FALSE, readingTime |-> FALSE]
\* an empty answer, and markup with next to no text
ClientEmpty == ClientPage("empty", 300, 0, "", "", 0, 0, 0)
ClientThin == ClientPage("thin", 2000, 120, "", "", 20, 1, 0)
\* extractions scoring 10, 35, 45, 53 and 72
ClientLow == ClientPage("low", 4000, 900, "Untitled Article", "", 150, 1, 0)
ClientAcceptable ==
  ClientPage("acceptable", 4000, 900, "A Tale of Two Mirrors", "", 150, 1, 0)
ClientGood ==
  ClientPage("good", 4000, 900, "A Tale of Two Mirrors", "Alice", 150, 1, 0)
ClientBetter ==
  ClientPage("better", 5000, 900, "A Tale of Two Mirrors", "Alice", 150, 4, 0)
ClientHigh ==
  ClientPage("high", 20000, 3600, "A Tale of Two Mirrors", "Alice", 600, 6, 1)

\* what fetchArticle uses of the result of ArticleFetcher.extractContent
ArticleFetcher_extracted(html) ==
  [content |-> html.id, title |-> html.title, author |-> html.author,
   words |-> html.words, paragraphs |-> html.paragraphs,
   headings |-> html.headings, images |-> html.images, quotes |-> html.quotes,
   lists |-> html.lists, links |-> html.links]

\* ArticleFetcher.extractWithStrategy(strategy), for what fetch comes to
ArticleFetcher_extractWithStrategy(strategy, fetched) ==
  IF fetched.kind = "abort"
  THEN Thrown("AbortError", "The signal has been aborted")
  ELSE IF ~ResponseOk(fetched)
  THEN Thrown("Error", HttpMessage(fetched))
  ELSE IF fetched.html.htmlLength < ClientMinHtmlLength
  THEN Thrown("Error", "Response too short, likely empty or error page")
  ELSE IF fetched.html.textLength < ClientMinTextLength
  THEN Thrown("Error", "Insufficient text content in response")
  ELSE LET extracted == ArticleFetcher_extracted(fetched.html)
           wordCount == extracted.words
       IN Returned([content |-> extracted.content,
                    title |-> extracted.title,
                    author |-> extracted.author,
                    wordCount |-> wordCount,
                    readingTime |-> Max(1, CeilDiv(wordCount, WordsPerMinute)),
                    completenessScore |->
                      ArticleFetcher_calculateCompletenessScore(extracted,
                                                                fetched.html),
                    method |-> strategy.method])

\* what a call of fetchArticle comes to: a value that is returned, or an
\* error that is thrown
ClientArticle(res, warning) ==
  [kind |-> "article", content |-> res.content, title |-> res.title,
   author |-> res.author, wordCount |-> res.wordCount,
   readingTime |-> res.readingTime, warning |-> warning]
ClientThrown(message) == [kind |-> "thrown", message |-> message]

\* the locals of a call of fetchArticle that has passed the validation; top,
\* high and beyond are history: the first highest extraction obtained, the
\* first one scoring >= 70, and the calls made after that one
NewFetch(u) ==
  [pc |-> "extract", url |-> u, strategyIndex |-> 0, attempt |-> 1,
   bestResult |-> Null, lastError |-> Null, outcome |-> Null, fetches |-> 0,
   top |-> Null, high |-> Null, beyond |-> 0, sleeps |-> <<>>]

\* fetchArticle(url) up to the first await
ClientFetch(u) ==
  /\ fetcher.pc = "idle"
  /\ fetcher' =
       IF mediumPattern(u) THEN NewFetch(u)
       ELSE [NewFetch(u) EXCEPT
               !.pc = "done",
               !.outcome = ClientThrown("Please provide a valid Medium article URL")]
  /\ UNCHANGED <<server, history, localStorage, dateNow, isInitialized,
                 lastTriggerTime, popunders>>

\* the statements after the loops: the best result with a warning, or throw
ClientExhausted(f) ==
  IF f.bestResult # Null /\ f.bestResult.completenessScore >= AcceptableScore
  THEN ClientArticle(f.bestResult, ClientWarning)
  ELSE IF f.lastError # Null THEN ClientThrown(f.lastError.message)
  ELSE ClientThrown("All extraction methods failed")

\* the end of a pass through the inner loop: sleep, or the next strategy, or
\* the statements after the loops
ClientContinue(f) ==
  IF f.attempt < ArticleFetcher_maxRetries(f.strategyIndex)
  THEN [f EXCEPT !.pc = "backoff"]
  ELSE IF f.strategyIndex + 1 < Len(ArticleFetcher_strategies)
  THEN [f EXCEPT !.strategyIndex = @ + 1, !.attempt = 1]
  ELSE [f EXCEPT !.pc = "done", !.outcome = ClientExhausted(f)]

\* const result = await this.extractWithStrategy(strategy) and the rest of
\* the pass, up to the next await or the end of the call
ClientExtract(outcomes) ==
  /\ fetcher.pc = "extract"
  /\ \E fetched \in outcomes :
       LET r == ArticleFetcher_extractWithStrategy(
                  ArticleFetcher_strategies[fetcher.strategyIndex + 1], fetched)
           score == IF r.ok THEN r.value.completenessScore ELSE 0
           f == [fetcher EXCEPT
                   !.fetches = @ + 1,
                   !.beyond = @ + (IF fetcher.high # Null THEN 1 ELSE 0),
                   !.top = IF r.ok /\ (@ = Null \/ score > @.completenessScore)
                           THEN r.value ELSE @,
                   !.high = IF r.ok /\ @ = Null /\ score >= HighQualityScore
                            THEN r.value ELSE @]
       IN fetcher' =
            IF ~r.ok
            THEN ClientContinue([f EXCEPT !.lastError = r.error])
            ELSE IF score >= HighQualityScore
            THEN [f EXCEPT !.pc = "done", !.outcome = ClientArticle(r.value, NoText)]
            ELSE IF /\ score >= GoodQualityScore
                    /\ \/ f.bestResult = Null
                       \/ score > f.bestResult.completenessScore
            THEN ClientContinue([f EXCEPT !.bestResult = r.value])
            ELSE ClientContinue(f)
  /\ UNCHANGED <<server, history, localStorage, dateNow, isInitialized,
                 lastTriggerTime, popunders>>

\* await new Promise(resolve => setTimeout(resolve, ..)); attempt++
ClientBackoff ==
  /\ fetcher.pc = "backoff"
  /\ fetcher' = [fetcher EXCEPT
                   !.pc = "extract",
                   !.sleeps = Append(@, ArticleFetcher_backoffMs(fetcher.attempt)),
                   !.attempt = @ + 1]
  /\ UNCHANGED <<server, history, localStorage, dateNow, isInitialized,
                 lastTriggerTime, popunders>>

(***************************************************************************)
(* SpecClient: one call of fetchArticle; a mirror times out, answers 503,  *)
(* or delivers one of the pages                                            *)
(***************************************************************************)
ClientUrls == {UrlAlice, UrlFtp}
ClientOutcomes ==
  {FetchAbort, FetchUnavailable, FetchBody(ClientEmpty), FetchBody(ClientThin),
   FetchBody(ClientLow), FetchBody(ClientAcceptable), FetchBody(ClientGood),
   FetchBody(ClientBetter), FetchBody(ClientHigh)}

NextClient ==
  \/ \E u \in ClientUrls : ClientFetch(u)
  \/ ClientExtract(ClientOutcomes)
  \/ ClientBackoff

SpecClient == Init /\ [][NextClient]_vars

\* C24: a call of fetchArticle that obtains an extraction scoring >= 70
\* returns it at once, without warning; a call in which none reaches 70
\* returns the best extraction it obtained, with the warning, whenever that
\* one scores >= 35; the call throws only when no extraction scored >= 35.
C24_ClientThresholds ==
  /\ fetcher.pc # "idle" /\ fetcher.high # Null =>
       /\ fetcher.pc = "done"
       /\ fetcher.beyond = 0
       /\ fetcher.outcome = ClientArticle(fetcher.high, NoText)
  /\ (/\ fetcher.pc = "done"
      /\ fetcher.fetches > 0
      /\ fetcher.high = Null) =>
       IF fetcher.top # Null /\ fetcher.top.completenessScore >= AcceptableScore
       THEN fetcher.outcome = ClientArticle(fetcher.top, ClientWarning)
       ELSE fetcher.outcome.kind = "thrown"


(***************************************************************************)
(* useArticleHistory: the reading history of the browser                   *)
(***************************************************************************)
STORAGE_KEY == "medium-reader-history"
MAX_HISTORY_ITEMS == 20
MaxClockMs == 160000

Digits == <<"0","1","2","3","4","5","6","7","8","9">>
\* https://medium.com/p/NN
ArticleUrl(n) ==
  C_HTTPS \o C_MEDIUM \o
  <<"/","p","/", Digits[(n \div 10) + 1], Digits[(n % 10) + 1]>>

\* localStorage as the set of its <<key, value>> entries
setItem(storage, key, value) ==
  {e \in storage : e[1] # key} \cup {<<key, value>>}
removeItem(storage, key) == {e \in storage : e[1] # key}
hasItem(storage, key) == \E e \in storage : e[1] = key
getItem(storage, key) == (CHOOSE e \in storage : e[1] = key)[2]

\* JSON.stringify of a list of items: the text, one entry of four values for
\* each item; JSON.parse makes the items again
JSON_stringify(items) ==
  [i \in 1..Len(items) |->
     <<items[i].url, items[i].title, items[i].author, items[i].fetchedAt>>]
JSON_parse(text) ==
  [i \in 1..Len(text) |->
     [url |-> text[i][1], title |-> text[i][2], author |-> text[i][3],
      fetchedAt |-> text[i][4]]]

\* prev.filter((h) => h.url !== url)
RECURSIVE WithoutUrl(_, _)
WithoutUrl(prev, u) ==
  IF prev = <<>> THEN <<>>
  ELSE IF Head(prev).url = u THEN WithoutUrl(Tail(prev), u)
  ELSE <<Head(prev)>> \o WithoutUrl(Tail(prev), u)

\* addToHistory without .slice(0, MAX_HISTORY_ITEMS)
addToHistoryUncapped(prev, item, t) ==
  <<[url |-> item.url, title |-> item.title, author |-> item.author,
     fetchedAt |-> t]>> \o WithoutUrl(prev, item.url)

\* the updater of addToHistory: newHistory, for the item and new Date()
addToHistory(prev, item, t) ==
  LET all == <<[url |-> item.url, title |-> item.title, author |-> item.author,
                fetchedAt |-> t]>> \o WithoutUrl(prev, item.url)
  IN SubSeq(all, 1, Min(Len(all), MAX_HISTORY_ITEMS))

\* the updater of removeFromHistory: newHistory
removeFromHistory(prev, u) == WithoutUrl(prev, u)

\* addToHistory(item): the state and the stored text are replaced
AddToHistory(u) ==
  LET newHistory ==
        addToHistory(history,
                     [url |-> u, title |-> "A Tale of Two Mirrors",
                      author |-> "Alice"], dateNow)
  IN /\ history' = newHistory
     /\ localStorage' = setItem(localStorage, STORAGE_KEY,
                                JSON_stringify(newHistory))
     /\ UNCHANGED <<server, dateNow, isInitialized, lastTriggerTime, popunders,
                    fetcher>>

\* removeFromHistory(url)
RemoveFromHistory(u) ==
  LET newHistory == removeFromHistory(history, u)
  IN /\ history' = newHistory
     /\ localStorage' = setItem(localStorage, STORAGE_KEY,
                                JSON_stringify(newHistory))
     /\ UNCHANGED <<server, dateNow, isInitialized, lastTriggerTime, popunders,
                    fetcher>>

\* clearHistory()
ClearHistory ==
  /\ localStorage' = removeItem(localStorage, STORAGE_KEY)
  /\ history' = <<>>
  /\ UNCHANGED <<server, dateNow, isInitialized, lastTriggerTime, popunders,
                 fetcher>>

\* time passes in the browser
ClockTicks ==
  /\ \E ms \in {10000, 30000} :
       /\ dateNow + ms <= MaxClockMs
       /\ dateNow' = dateNow + ms
  /\ UNCHANGED <<server, history, localStorage, isInitialized, lastTriggerTime,
                 popunders, fetcher>>

(***************************************************************************)
(* SpecHistory: the hook after its mount effect, over the storage the hook *)
(* left in an earlier visit: nothing, or a list of 19 or of 20 articles    *)
(***************************************************************************)
\* the list of the articles n, n - 1, .., 1, read one second apart
EarlierVisit(n) ==
  [i \in 1..n |->
     [url |-> ArticleUrl(n + 1 - i), title |-> "A Tale of Two Mirrors",
      author |-> "Alice", fetchedAt |-> 50000 - 1000 * i]]
HistoryUrls == {ArticleUrl(1), ArticleUrl(20), ArticleUrl(21), ArticleUrl(22)}

InitHistory ==
  /\ now = 0
  /\ article_cache = {}
  /\ extraction_logs = EmptyBag
  /\ url_reliability = {}
  /\ storeUp = TRUE
  /\ probe = NoProbe
  /\ InitInvocations
  /\ dateNow = 100000
  /\ isInitialized = FALSE
  /\ lastTriggerTime = 0
  /\ popunders = <<>>
  /\ fetcher = NoFetch
  /\ \/ localStorage = {}
     \/ \E n \in {19, MAX_HISTORY_ITEMS} :
          localStorage = {<<STORAGE_KEY, JSON_stringify(EarlierVisit(n))>>}
  /\ history = IF hasItem(localStorage, STORAGE_KEY)
               THEN JSON_parse(getItem(localStorage, STORAGE_KEY))
               ELSE <<>>

NextHistory ==
  \/ \E u \in HistoryUrls : AddToHistory(u)
  \/ \E u \in HistoryUrls : RemoveFromHistory(u)
  \/ ClearHistory
  \/ ClockTicks

SpecHistory == InitHistory /\ [][NextHistory]_vars

\* C25: after any sequence of addToHistory, removeFromHistory and
\* clearHistory the history has at most 20 items, no url twice, the most
\* recently added first, and the stored text is that of the list in memory;
\* clearHistory leaves nothing stored.
C25_HistoryKept ==
  /\ Len(history) <= MAX_HISTORY_ITEMS
  /\ \A i, j \in 1..Len(history) : history[i].url = history[j].url => i = j
  /\ \A i, j \in 1..Len(history) :
       i < j => history[i].fetchedAt >= history[j].fetchedAt
  /\ IF hasItem(localStorage, STORAGE_KEY)
     THEN /\ getItem(localStorage, STORAGE_KEY) = JSON_stringify(history)
          /\ JSON_parse(getItem(localStorage, STORAGE_KEY)) = history
     ELSE history = <<>>
C25_ClearLeavesNothing ==
  [][(Len(history) >= 2 /\ history' = <<>>) =>
       ~hasItem(localStorage', STORAGE_KEY)]_vars
C25_History == []C25_HistoryKept /\ C25_ClearLeavesNothing

\* a full history to which an article not in it has been added, so that the
\* oldest one was dropped, and from which an article has been removed; and
\* the storage is in use
C25_Witness ==
  /\ Len(history) = MAX_HISTORY_ITEMS - 1
  /\ history[1].url = ArticleUrl(22)
  /\ history[1].fetchedAt > 100000
  /\ history[2].url = ArticleUrl(21)
  /\ \A i \in 1..Len(history) : history[i].url \notin {ArticleUrl(1), ArticleUrl(20)}
  /\ hasItem(localStorage, STORAGE_KEY)


(***************************************************************************)
(* AdsterraPopunderService: triggerPopunder and its rate limit             *)
(***************************************************************************)
minInterval == 30000
MaxCalls == 4

\* script.onload of loadScript: the ad script has loaded
ScriptLoads ==
  /\ ~isInitialized
  /\ isInitialized' = TRUE
  /\ UNCHANGED <<server, history, localStorage, dateNow, lastTriggerTime,
                 popunders, fetcher>>

\* what a call of triggerPopunder returns and the value of lastTriggerTime
\* after it.  throws: the statements of the main method throw; opened:
\* window.open of alternativeTrigger gives a window.
triggerPopunder(initialized, last, currentTime, throws, opened) ==
  IF currentTime - last < minInterval
  THEN [returned |-> FALSE, lastTriggerTime |-> last, path |-> "limited"]
  ELSE IF initialized /\ ~throws
  THEN [returned |-> TRUE, lastTriggerTime |-> currentTime, path |-> "main"]
  ELSE IF initialized
  THEN [returned |-> opened, lastTriggerTime |-> last, path |-> "fallback"]
  ELSE IF opened
  THEN [returned |-> TRUE, lastTriggerTime |-> currentTime,
        path |-> "alternative"]
  ELSE [returned |-> FALSE, lastTriggerTime |-> last, path |-> "alternative"]

\* a call of triggerPopunder()
TriggerPopunder ==
  /\ Len(popunders) < MaxCalls
  /\ \E throws \in BOOLEAN, opened \in BOOLEAN :
       LET r == triggerPopunder(isInitialized, lastTriggerTime, dateNow,
                                throws, opened)
       IN /\ lastTriggerTime' = r.lastTriggerTime
          /\ popunders' = Append(popunders,
                                 [at |-> dateNow, returned |-> r.returned,
                                  path |-> r.path, before |-> lastTriggerTime,
                                  after |-> r.lastTriggerTime])
  /\ UNCHANGED <<server, history, localStorage, dateNow, isInitialized, fetcher>>

(***************************************************************************)
(* SpecAds: calls of triggerPopunder as time passes, before and after the  *)
(* ad script has loaded                                                    *)
(***************************************************************************)
NextAds == ScriptLoads \/ TriggerPopunder \/ ClockTicks

SpecAds == Init /\ [][NextAds]_vars

\* C30: between two calls of triggerPopunder that return true at least
\* minInterval ms pass, on every path (main trigger, alternative trigger,
\* fallback after the main trigger threw); a call made less than minInterval
\* after lastTriggerTime returns false and leaves lastTriggerTime as it was.
C30_RateLimited ==
  /\ \A i, j \in 1..Len(popunders) :
       (i < j /\ popunders[i].returned /\ popunders[j].returned) =>
         popunders[j].at - popunders[i].at >= minInterval
  /\ \A i \in 1..Len(popunders) :
       popunders[i].at - popunders[i].before < minInterval =>
         /\ ~popunders[i].returned
         /\ popunders[i].after = popunders[i].before


MinCandidateText == 300
MinContentLength == 1000
ParagraphWeight == 100
MaxCandidates == 3

Candidate(id, length, textLength, paragraphCount) ==
  [id |-> id, length |-> length, textLength |-> textLength,
   paragraphCount |-> paragraphCount]
\* let bestContent = ''
NoContent == Candidate("", 0, 0, 0)
\* const score = textLength + (paragraphCount * 100)
CandidateScore(c) == c.textLength + c.paragraphCount * ParagraphWeight

\* the two loops over contentPatterns and html.matchAll(pattern)
RECURSIVE BestContentFrom(_, _, _, _)
BestContentFrom(matches, i, bestContent, bestScore) ==
  IF i > Len(matches) THEN bestContent
  ELSE LET c == matches[i]
       IN IF /\ c.length > 0
             /\ CandidateScore(c) > bestScore
             /\ c.textLength > MinCandidateText
          THEN BestContentFrom(matches, i + 1, c, CandidateScore(c))
          ELSE BestContentFrom(matches, i + 1, bestContent, bestScore)

\* content after the fallback: the best candidate, the body, or the markup
ArticleFetcher_extractContent(html) ==
  LET bestContent == BestContentFrom(html.matches, 1, NoContent, 0)
  IN IF bestContent.length < MinContentLength
     THEN IF html.hasBody THEN [from |-> "body", block |-> NoContent]
          ELSE [from |-> "html", block |-> NoContent]
     ELSE [from |-> "candidate", block |-> bestContent]

(***************************************************************************)
(* SpecExtract: extractContent applied to markup with up to MaxCandidates  *)
(* matches, with and without a body                                        *)
(***************************************************************************)
\* a block of links with many short paragraphs
BlockDecorative == Candidate("decorative", 400, 200, 13)
\* a short block without paragraphs
BlockShort == Candidate("short", 450, 400, 0)
\* a short block of eleven paragraphs
BlockTeaser == Candidate("teaser", 900, 400, 11)
\* a short text in heavy markup
BlockHeavy == Candidate("heavy", 1500, 400, 0)
\* an article of two paragraphs, and a long article
BlockArticle == Candidate("article", 1300, 1200, 2)
BlockLong == Candidate("long", 3500, 3000, 20)
Blocks ==
  {BlockDecorative, BlockShort, BlockTeaser, BlockHeavy, BlockArticle, BlockLong}
Markup ==
  {[matches |-> m, hasBody |-> b] :
     m \in UNION {[1..n -> Blocks] : n \in 0..MaxCandidates}, b \in BOOLEAN}

InitExtract ==
  /\ now = 0
  /\ article_cache = {}
  /\ extraction_logs = EmptyBag
  /\ url_reliability = {}
  /\ storeUp = TRUE
  /\ probe \in {[fn |-> "markup", html |-> h,
                 out |-> [from |-> "", block |-> NoContent]] : h \in Markup}
  /\ InitBrowser
  /\ InitInvocations

\* ArticleFetcher.extractContent(html), on the probe
ExtractContent ==
  /\ probe.fn = "markup"
  /\ probe' = [probe EXCEPT !.fn = "ArticleFetcher.extractContent",
                            !.out = ArticleFetcher_extractContent(probe.html)]
  /\ UNCHANGED <<now, requests, tables, pc, req, url, locals, response, seen,
                 storeUp, wire, cancelled, browser>>

NextExtract == ExtractContent

SpecExtract == InitExtract /\ [][NextExtract]_vars

\* the first of the matches with the highest score
FirstHighest(matches) ==
  LET top == {i \in 1..Len(matches) :
                \A j \in 1..Len(matches) :
                  CandidateScore(matches[j]) <= CandidateScore(matches[i])}
  IN matches[CHOOSE i \in top : \A j \in top : i <= j]

\* C27: extractContent chooses the first match with the highest value of
\* stripped text length + 100 * paragraph count among all matches of all
\* rules; the body (the whole markup when there is no body) is used instead
\* exactly when no match has more than 1000 characters of text.
C27_HighestCandidateWins ==
  probe.fn = "ArticleFetcher.extractContent" =>
    IF \E i \in 1..Len(probe.html.matches) :
         probe.html.matches[i].textLength > MinContentLength
    THEN /\ probe.out.from = "candidate"
         /\ probe.out.block = FirstHighest(probe.html.matches)
    ELSE probe.out.from = IF probe.html.hasBody THEN "body" ELSE "html"


(***************************************************************************)
(* SpecOneFair: a single invocation of worker r1 that takes a step         *)
(* whenever it can: the store answers every statement, a fetch comes to    *)
(* one of its outcomes, and the timer of a backoff sleep fires             *)
(***************************************************************************)
FairUrls == {UrlAlice, UrlFtp}
FairProc == "r1"

NextOneFair ==
  \/ \E u \in FairUrls : requests = 0 /\ Receive(FairProc, u)
  \/ CheckCache(FairProc)
  \/ Extract(FairProc, AllOutcomes)
  \/ LogSuccess(FairProc)
  \/ CacheArticle(FairProc)
  \/ LogPartial(FairProc)
  \/ LogFailed(FairProc)
  \/ SelectReliability(FairProc)
  \/ WriteReliability(FairProc)
  \/ Backoff(FairProc)

SpecOneFair == Init /\ [][NextOneFair]_vars /\ WF_vars(NextOneFair)

\* the calls of extractWithStrategy of invocation p with a method
AttemptsWith(p, method) ==
  Cardinality({i \in 1..Len(seen[p].order) : seen[p].order[i] = method})

C28_Bounded ==
  \A p \in Procs :
    /\ seen[p].fetches <= 5
    /\ AttemptsWith(p, strategies[1].method) <= 2
    /\ \A i \in 2..Len(strategies) : AttemptsWith(p, strategies[i].method) <= 1
    /\ Len(seen[p].sleeps) <= 1
    /\ Finished(p) <=> response[p] # NoResponse
C28_OneResponse ==
  [][\A p \in Procs : response[p] # NoResponse => response'[p] = response[p]]_vars
hostname(s) ==
  LET a == AfterScheme(s, 1)
      stops == {j \in a..Len(s) : s[j] \in {"/", "?", "#"}}
      b == IF stops = {} THEN Len(s)
           ELSE (CHOOSE j \in stops : \A k \in stops : j <= k) - 1
      ats == {j \in a..b : s[j] = "@"}
      c == IF ats = {} THEN a
           ELSE (CHOOSE j \in ats : \A k \in ats : j >= k) + 1
  IN IF a = 0 THEN <<>> ELSE SubSeq(s, c, b)

\* medium.com, www.medium.com or one label in front of .medium.com
SingleLabelMediumHost(h) ==
  \/ h = C_MEDIUM
  \/ h = C_WWW \o C_MEDIUM
  \/ \E n \in 1..Len(h) :
       /\ Len(h) = n + Len(C_DOT_MEDIUM)
       /\ \A k \in 1..n : h[k] \in LabelChars
       /\ MatchAt(h, n + 1, C_DOT_MEDIUM)

\* medium.com or a name below it
InsideMedium(h) ==
  \/ h = C_MEDIUM
  \/ Len(h) > Len(C_DOT_MEDIUM) /\ MatchAt(h, Len(h) - Len(C_DOT_MEDIUM) + 1, C_DOT_MEDIUM)

\* C29: the url of every invocation that passes the validation has the host
\* medium.com, www.medium.com or a single-label subdomain of medium.com, and
\* no attempt of any strategy starts for a url whose host is outside
\* medium.com.
C29_AcceptedHosts ==
  \A p \in Procs :
    /\ Started(p) /\ ValidateRequest(url[p]) = Null
         => SingleLabelMediumHost(hostname(url[p]))
    /\ Started(p) /\ seen[p].fetches > 0 => InsideMedium(hostname(url[p]))

====
